---------------------------- MODULE Spec2Model ----------------------------
(***************************************************************************)
(* Model of the projection / scenario engine of net_flows_update           *)
(* (src/scripts/analysis/inflow_scenarios.py, aid_scenarios.py, common.py  *)
(* and src/scripts/models/seek.py).                                        *)
(*                                                                         *)
(* A DataFrame is a sequence of rows (records).  An indicator label is a   *)
(* sequence of tokens whose spelling, a sequence of one-character strings, *)
(* is what str.contains reads.  A float is an exact rational held as an    *)
(* integer number of 1/Den units, both for the `value` column and for      *)
(* multipliers (Den stands for 1.0).                                       *)
(***************************************************************************)
EXTENDS Integers, Sequences, FiniteSets, TLC

VARIABLES
    data,       \* the table handed to the operation (argument `data`)
    mult,       \* the decreasing-entities table (extract_decreases())
    call,       \* the operation that ran and its arguments; op = "none" before
    extended,   \* local `data` after the extension stage (concat of the copies)
    parts,      \* data_seek / data_us / data_rest of the scenario composer
    projected,  \* the composer's concat of the three projected partitions
    out,        \* the value returned by the operation
    status      \* "idle" before the call, then "ok" or the exception raised

vars == <<data, mult, call, extended, parts, projected, out, status>>

(***************************************************************************)
(* Constants of the program.                                               *)
(***************************************************************************)
LATEST_INFLOWS == 2023
TargetYear == 2027

\* 1.0 in the fixed-point unit of values and multipliers.  Every scaling the
\* program applies (i/n_years for n_years <= 6, percent, tenths) is exact
\* on the values the model draws, which are multiples of 50 * Den.
Den == 12 * 100

\* A missing string (NaN in an object column), and a missing float: a number
\* far below every float the model computes stands for NaN.
NULL == "NaN"
NaN == 0 - 1000000000

(***************************************************************************)
(* Strings and str.contains(pat, case=False)                               *)
(***************************************************************************)
UpperCase == <<"A","B","C","D","E","F","G","H","I","J","K","L","M",
               "N","O","P","Q","R","S","T","U","V","W","X","Y","Z">>
LowerCase == <<"a","b","c","d","e","f","g","h","i","j","k","l","m",
               "n","o","p","q","r","s","t","u","v","w","x","y","z">>

Alphabet ==
    {UpperCase[i] : i \in 1..26} \cup {LowerCase[i] : i \in 1..26} \cup {"_", "-", " "}

\* Lower case of every character.
FoldMap ==
    [c \in Alphabet |->
        IF \E i \in 1..26 : UpperCase[i] = c
        THEN LowerCase[CHOOSE i \in 1..26 : UpperCase[i] = c]
        ELSE c]

\* re.IGNORECASE (case=False): the subject is compared case-folded with the
\* lower-case pattern.
FoldCaseSensitive(c) == c

Fold(c) == FoldMap[c]

\* A pattern is a sequence of elements [set, opt]: one character out of
\* `set`, optional when `opt` (the regex operator ?).
Lit(c) == [set |-> {c}, opt |-> FALSE]
Opt(S) == [set |-> S, opt |-> TRUE]

PatGrant == <<Lit("g"), Lit("r"), Lit("a"), Lit("n"), Lit("t")>>
PatConcessional ==
    <<Lit("c"), Lit("o"), Lit("n"), Lit("c"), Lit("e"), Lit("s"),
      Lit("s"), Lit("i"), Lit("o"), Lit("n"), Lit("a"), Lit("l")>>
\* "non[- ]?concessional"
PatNonConcessional ==
    <<Lit("n"), Lit("o"), Lit("n"), Opt({"-", " "})>> \o PatConcessional

\* Does pattern element k.. match s at position i (backtracking matcher)?
RECURSIVE MatchAt(_, _, _, _)
MatchAt(s, i, pat, k) ==
    IF k > Len(pat) THEN TRUE
    ELSE \/ /\ i <= Len(s)
            /\ Fold(s[i]) \in pat[k].set
            /\ MatchAt(s, i + 1, pat, k + 1)
         \/ /\ pat[k].opt
            /\ MatchAt(s, i, pat, k + 1)

\* re.search: try every start position from the left.
RECURSIVE SearchFrom(_, _, _)
SearchFrom(s, i, pat) ==
    IF i > Len(s) + 1 THEN FALSE
    ELSE IF MatchAt(s, i, pat, 1) THEN TRUE
    ELSE SearchFrom(s, i + 1, pat)

StrContains(s, pat) == SearchFrom(s, 1, pat)

\* The characters of each token an indicator label is made of.
Spelling ==
    [grants |-> <<"g","r","a","n","t","s">>,
     Grants |-> <<"G","r","a","n","t","s">>,
     grant |-> <<"g","r","a","n","t">>,
     bilateral |-> <<"b","i","l","a","t","e","r","a","l">>,
     multilateral |-> <<"m","u","l","t","i","l","a","t","e","r","a","l">>,
     concessional |-> <<"c","o","n","c","e","s","s","i","o","n","a","l">>,
     Concessional |-> <<"C","o","n","c","e","s","s","i","o","n","a","l">>,
     non |-> <<"n","o","n">>,
     Non |-> <<"N","o","n">>,
     NON |-> <<"N","O","N">>,
     bonds |-> <<"b","o","n","d","s">>,
     us |-> <<"_">>,
     dash |-> <<"-">>,
     sp |-> <<" ">>]

RECURSIVE Text(_)
\* The label as the string pandas sees.
Text(ind) == IF Len(ind) = 0 THEN <<>> ELSE Spelling[Head(ind)] \o Text(Tail(ind))

(***************************************************************************)
(* Row selector (analysis/common.py); `ind` is the text of one row's       *)
(* indicator, the result is that row's element of the boolean Series.      *)
(***************************************************************************)
\* TRUE means the row is NOT a grant indicator.
mask_grant_indicators(ind) == ~StrContains(ind, PatGrant)

mask_grant_and_concessional_indicators(ind) ==
    LET is_grant == StrContains(ind, PatGrant)
        is_concessional == StrContains(ind, PatConcessional)
        is_non_concessional == StrContains(ind, PatNonConcessional)
    IN  ~(is_grant \/ (is_concessional /\ ~is_non_concessional))

\* reduce_mask / apply_mask of the projectors: version "grants" or anything else.
ReduceMask(version, ind) ==
    IF version = "grants"
    THEN ~mask_grant_indicators(ind)
    ELSE ~mask_grant_and_concessional_indicators(ind)

MaskSeq(t, version) ==
    [j \in 1..Len(t) |-> ReduceMask(version, Text(t[j].indicator))]

RECURSIVE Filter(_, _)
\* t.loc[keep]: the rows of t whose element of the boolean sequence is TRUE.
Filter(t, keep) ==
    IF Len(t) = 0 THEN <<>>
    ELSE (IF keep[1] THEN <<t[1]>> ELSE <<>>)
         \o Filter(Tail(t), Tail(keep))

exclude_grant_indicators(t) ==
    Filter(t, [j \in 1..Len(t) |-> mask_grant_indicators(Text(t[j].indicator))])

exclude_grant_and_concessional_indicators(t) ==
    Filter(t, [j \in 1..Len(t) |->
                  mask_grant_and_concessional_indicators(Text(t[j].indicator))])

(***************************************************************************)
(* Table helpers                                                           *)
(***************************************************************************)
\* data["year"].min() and .max() of a non-empty table.
MinYear(t) ==
    CHOOSE y \in {t[j].year : j \in 1..Len(t)} :
        \A j \in 1..Len(t) : t[j].year >= y

MaxYear(t) ==
    CHOOSE y \in {t[j].year : j \in 1..Len(t)} :
        \A j \in 1..Len(t) : t[j].year <= y

\* data[data["year"] == latest_year].copy() with projected["year"] = year
CopyAsAllRows(t, latest_year, year) ==
    [j \in 1..Len(t) |-> [t[j] EXCEPT !.year = year]]

CopyAs(t, latest_year, year) ==
    LET rows == SelectSeq(t, LAMBDA r : r.year = latest_year)
    IN  [j \in 1..Len(rows) |-> [rows[j] EXCEPT !.year = year]]

RECURSIVE ProjectedRows(_, _, _, _)
\* The loop `for year in future_years`, from `year` on: the copies, concatenated.
ProjectedRows(t, latest_year, year, target_year) ==
    IF year > target_year THEN <<>>
    ELSE CopyAs(t, latest_year, year)
         \o ProjectedRows(t, latest_year, year + 1, target_year)

\* The extension stage: pd.concat([data] + projected_rows) when there are any.
Extend(t, target_year) ==
    t \o ProjectedRows(t, MaxYear(t), MaxYear(t) + 1, target_year)

(***************************************************************************)
(* Linear reduction (projected_scenarios, projected_oda_scenarios)         *)
(***************************************************************************)
\* factor = 1 - (reduce_by / 100) * (i / n_years), as <<numerator, denominator>>
FactorZeroBased(reduce_by, i, n_years) ==
    <<100 * n_years - reduce_by * (i - 1), 100 * n_years>>

Factor(reduce_by, i, n_years) ==
    <<100 * n_years - reduce_by * i, 100 * n_years>>

ScaleEveryYear(t, mask, year, factor) ==
    [j \in 1..Len(t) |->
        IF mask[j]
        THEN [t[j] EXCEPT !.value = (t[j].value * factor[1]) \div factor[2]]
        ELSE t[j]]

\* data.loc[year_mask, "value"] *= factor
ScaleYear(t, mask, year, factor) ==
    [j \in 1..Len(t) |->
        IF t[j].year = year /\ mask[j]
        THEN [t[j] EXCEPT !.value = (t[j].value * factor[1]) \div factor[2]]
        ELSE t[j]]

RECURSIVE ReduceFrom(_, _, _, _, _, _)
\* The loop `for i, year in enumerate(years_to_reduce, start=1)`, from i on.
ReduceFrom(t, mask, latest_year, n_years, reduce_by, i) ==
    IF i > n_years THEN t
    ELSE ReduceFrom(ScaleYear(t, mask, latest_year + i,
                              Factor(reduce_by, i, n_years)),
                    mask, latest_year, n_years, reduce_by, i + 1)

\* Body of projected_scenarios after the extension, for a non-empty table.
projected_scenarios(t, version, reduce_by, target_year) ==
    LET latest_year == MaxYear(t)
        ext == Extend(t, target_year)
    IN  ReduceFrom(ext, MaskSeq(ext, version), latest_year,
                   target_year - latest_year, reduce_by, 1)

\* projected_oda_scenarios: the same loop with year_mask = (year == year).
projected_oda_scenarios(t, reduce_by, target_year) ==
    LET latest_year == MaxYear(t)
        ext == Extend(t, target_year)
    IN  ReduceFrom(ext, [j \in 1..Len(ext) |-> TRUE], latest_year,
                   target_year - latest_year, reduce_by, 1)

(***************************************************************************)
(* Multiplier projector                                                    *)
(***************************************************************************)
MergeRowInner(r, multipliers, multiplier_col) ==
    LET hits == SelectSeq(multipliers,
                          LAMBDA m : m.iso_code = r.iso_code /\ m.year = r.year)
    IN  [k \in 1..Len(hits) |->
            [country |-> r.country, iso_code |-> r.iso_code, year |-> r.year,
             indicator |-> r.indicator, value |-> r.value,
             multiplier |-> hits[k][multiplier_col]]]

\* One left row joined with the rows of the multiplier table of the same
\* (iso_code, year): one output row per match, or one with a missing
\* multiplier when there is none.
MergeRow(r, multipliers, multiplier_col) ==
    LET hits == SelectSeq(multipliers,
                          LAMBDA m : m.iso_code = r.iso_code /\ m.year = r.year)
    IN  IF Len(hits) = 0
        THEN << [country |-> r.country, iso_code |-> r.iso_code, year |-> r.year,
                 indicator |-> r.indicator, value |-> r.value,
                 multiplier |-> NaN] >>
        ELSE [k \in 1..Len(hits) |->
                [country |-> r.country, iso_code |-> r.iso_code, year |-> r.year,
                 indicator |-> r.indicator, value |-> r.value,
                 multiplier |-> hits[k][multiplier_col]]]

RECURSIVE Merge(_, _, _)
\* data.merge(multipliers[["iso_code", "year", multiplier_col]], how="left")
Merge(t, multipliers, multiplier_col) ==
    IF Len(t) = 0 THEN <<>>
    ELSE MergeRow(Head(t), multipliers, multiplier_col)
         \o Merge(Tail(t), multipliers, multiplier_col)

\* Series.where(cond, other) and Series.fillna(default), on one element.
Where(m, cond, other) == IF cond THEN m ELSE other

FillNaZero(m, default) == IF m = NaN THEN 0 ELSE m

FillNa(m, default) == IF m = NaN THEN default ELSE m

\* data["value"] * data[multiplier_col].where(apply_mask, 1.0).fillna(1.0)
ApplyMultiplier(t, apply_mask) ==
    [j \in 1..Len(t) |->
        [t[j] EXCEPT !.value =
            (t[j].value * FillNa(Where(t[j].multiplier, apply_mask[j], Den), Den))
                \div Den]]

projected_scenarios_with_multiplier(t, multipliers, version, multiplier_col, target_year) ==
    LET merged == Merge(Extend(t, target_year), multipliers, multiplier_col)
    IN  ApplyMultiplier(merged, MaskSeq(merged, version))

\* data["value"] * data[multiplier_col].fillna(1.0): no mask in the ODA variant.
projected_oda_with_multiplier(t, multipliers, multiplier_col, target_year) ==
    LET merged == Merge(Extend(t, target_year), multipliers, multiplier_col)
    IN  ApplyMultiplier(merged, [j \in 1..Len(merged) |-> TRUE])

(***************************************************************************)
(* Inputs of the model                                                     *)
(***************************************************************************)
\* Largest number of rows of an input table of the projectors.
MaxRows == 3

Years == (LATEST_INFLOWS - 1)..LATEST_INFLOWS
Targets == {LATEST_INFLOWS - 1, LATEST_INFLOWS + 1, TargetYear}
Reductions == {0, 60}
Versions == {"grants", "concessional_finance"}

grants_bilateral == <<"grants", "us", "bilateral">>
bilateral_concessional == <<"bilateral", "us", "concessional">>
bilateral_non_concessional == <<"bilateral", "us", "non", "us", "concessional">>
multilateral_non_concessional == <<"multilateral", "us", "non", "us", "concessional">>

\* The k-th row of the projectors' row domain (mixed radix in k): counterpart
\* FRA or GBR, year, indicator; FRA rows carry 50.0 and GBR rows 100.0.
IsoP == <<"FRA", "GBR">>
IndP == <<grants_bilateral, bilateral_concessional>>
ValP == <<50 * Den, 100 * Den>>
RowP(k) ==
    [country |-> "Kenya",
     iso_code |-> IsoP[(k % 2) + 1],
     year |-> LATEST_INFLOWS - ((k \div 2) % 2),
     indicator |-> IndP[((k \div 4) % 2) + 1],
     value |-> ValP[(k % 2) + 1]]

\* Tables of n rows out of rows 0..N-1, one per multiset of rows: the order
\* of the rows of a DataFrame carries no meaning for the operations.
IndexSeqs(n, N) ==
    {f \in [1..n -> 0..(N - 1)] : \A j \in 1..(n - 1) : f[j] <= f[j + 1]}

TablesP ==
    UNION {{[j \in 1..n |-> RowP(f[j])] : f \in IndexSeqs(n, 8)} : n \in 0..MaxRows}

\* Multiplier paths: realistic_multiplier per year, 2023 being the baseline.
PathExample ==
    (2023 :> Den) @@ (2024 :> (9 * Den) \div 10) @@ (2025 :> (8 * Den) \div 10)
PathHist ==
    (2022 :> (12 * Den) \div 10) @@ (2023 :> Den) @@ (2024 :> (9 * Den) \div 10)
    @@ (2025 :> (8 * Den) \div 10) @@ (2026 :> (7 * Den) \div 10)
    @@ (2027 :> (6 * Den) \div 10)

RECURSIVE PathRows(_, _, _)
PathRows(iso, path, y) ==
    IF y > TargetYear THEN <<>>
    ELSE (IF y \in DOMAIN path
          THEN << [iso_code |-> iso, year |-> y, realistic_multiplier |-> path[y]] >>
          ELSE <<>>)
         \o PathRows(iso, path, y + 1)

MultTable(iso, path) == PathRows(iso, path, LATEST_INFLOWS - 1)

SeekTablesP == {<<>>, MultTable("FRA", PathExample), MultTable("FRA", PathHist)}

NoParts == [seek |-> <<>>, us |-> <<>>, rest |-> <<>>]

NoCall ==
    [op |-> "none", version |-> NULL, reduce_by |-> NULL, target_year |-> NULL,
     multiplier_col |-> NULL, scenario |-> NULL, start_year |-> NULL]

(***************************************************************************)
(* The projectors as operations: Spec                                      *)
(***************************************************************************)
Init ==
    /\ data \in TablesP
    /\ mult \in SeekTablesP
    /\ call = NoCall
    /\ extended = <<>>
    /\ parts = NoParts
    /\ projected = <<>>
    /\ out = <<>>
    /\ status = "idle"

\* data["year"].max() of an empty table is NaN, and range(NaN + 1, ...) raises.
Raises(t) == Len(t) = 0

CallProjectedScenarios ==
    /\ status = "idle"
    /\ \E v \in Versions, r \in Reductions, ty \in Targets :
        /\ call' = [NoCall EXCEPT !.op = "projected_scenarios", !.version = v,
                                  !.reduce_by = r, !.target_year = ty]
        /\ IF Raises(data)
           THEN /\ status' = "TypeError"
                /\ UNCHANGED <<extended, out>>
           ELSE /\ status' = "ok"
                /\ extended' = Extend(data, ty)
                /\ out' = projected_scenarios(data, v, r, ty)
    /\ UNCHANGED <<data, mult, parts, projected>>

CallProjectedOdaScenarios ==
    /\ status = "idle"
    /\ \E r \in Reductions, ty \in Targets :
        /\ call' = [NoCall EXCEPT !.op = "projected_oda_scenarios",
                                  !.reduce_by = r, !.target_year = ty]
        /\ IF Raises(data)
           THEN /\ status' = "TypeError"
                /\ UNCHANGED <<extended, out>>
           ELSE /\ status' = "ok"
                /\ extended' = Extend(data, ty)
                /\ out' = projected_oda_scenarios(data, r, ty)
    /\ UNCHANGED <<data, mult, parts, projected>>

CallProjectedScenariosWithMultiplier ==
    /\ status = "idle"
    /\ \E v \in Versions, ty \in Targets :
        /\ call' = [NoCall EXCEPT !.op = "projected_scenarios_with_multiplier",
                                  !.version = v, !.target_year = ty,
                                  !.multiplier_col = "realistic_multiplier"]
        /\ IF Raises(data)
           THEN /\ status' = "TypeError"
                /\ UNCHANGED <<extended, out>>
           ELSE /\ status' = "ok"
                /\ extended' = Extend(data, ty)
                /\ out' = projected_scenarios_with_multiplier(
                              data, mult, v, "realistic_multiplier", ty)
    /\ UNCHANGED <<data, mult, parts, projected>>

CallProjectedOdaWithMultiplier ==
    /\ status = "idle"
    /\ \E ty \in Targets :
        /\ call' = [NoCall EXCEPT !.op = "projected_oda_with_multiplier",
                                  !.target_year = ty,
                                  !.multiplier_col = "realistic_multiplier"]
        /\ IF Raises(data)
           THEN /\ status' = "TypeError"
                /\ UNCHANGED <<extended, out>>
           ELSE /\ status' = "ok"
                /\ extended' = Extend(data, ty)
                /\ out' = projected_oda_with_multiplier(
                              data, mult, "realistic_multiplier", ty)
    /\ UNCHANGED <<data, mult, parts, projected>>

Next ==
    \/ CallProjectedScenarios
    \/ CallProjectedOdaScenarios
    \/ CallProjectedScenariosWithMultiplier
    \/ CallProjectedOdaWithMultiplier

Spec == Init /\ [][Next]_vars

(***************************************************************************)
(* Properties of the projectors (checked under Spec)                       *)
(***************************************************************************)
LinearOps == {"projected_scenarios", "projected_oda_scenarios"}
MultiplierOps ==
    {"projected_scenarios_with_multiplier", "projected_oda_with_multiplier"}
ProjectorOps == LinearOps \cup MultiplierOps

Returned(ops) == call.op \in ops /\ status = "ok"

\* Positions in `data` of the rows of the latest year, and the p-th of them.
LatestAt(t) == {j \in 1..Len(t) : t[j].year = MaxYear(t)}
NthLatest(t, p) ==
    t[CHOOSE j \in LatestAt(t) : Cardinality({q \in LatestAt(t) : q <= j}) = p]

\* Years added by the extension: target_year - latest when positive, else 0.
Span(t, target_year) ==
    IF target_year > MaxYear(t) THEN target_year - MaxYear(t) ELSE 0

\* Position in the extended table of the copy of the p-th latest row for
\* the i-th projected year.
CopyPos(t, i, p) == Len(t) + (i - 1) * Cardinality(LatestAt(t)) + p

SameButYear(o, r, y) ==
    /\ o.country = r.country
    /\ o.iso_code = r.iso_code
    /\ o.indicator = r.indicator
    /\ o.year = y

\* C9: the extension stage keeps the input rows and appends, for every year
\* y with latest < y <= target_year, one copy of every row of the latest
\* year with year set to y and all other fields equal; the row count grows
\* by (target_year - latest) * (rows at latest), and by 0 when
\* target_year <= latest.
C9_TimeExtender ==
    Returned(ProjectorOps) =>
        LET n == Span(data, call.target_year)
            k == Cardinality(LatestAt(data))
        IN  /\ Len(extended) = Len(data) + n * k
            /\ \A j \in 1..Len(data) : extended[j] = data[j]
            /\ \A i \in 1..n, p \in 1..k :
                  extended[CopyPos(data, i, p)] =
                      [NthLatest(data, p) EXCEPT !.year = MaxYear(data) + i]
            /\ (call.target_year <= MaxYear(data) => extended = data)

\* A table with an older row and a latest-year row was extended by several years.
C9_Witness ==
    /\ Returned(ProjectorOps)
    /\ Span(data, call.target_year) > 1
    /\ Len(data) = 2
    /\ Cardinality(LatestAt(data)) = 1
    /\ Len(extended) = Len(data) + Span(data, call.target_year)

\* Is the row subject to the reduction / multiplier in this call?
Masked(r) ==
    \/ call.op \in {"projected_oda_scenarios", "projected_oda_with_multiplier"}
    \/ ReduceMask(call.version, Text(r.indicator))

\* C1: with n = target_year - latest > 0, the copy for year y of a masked
\* latest-year row has value = source value * (1 - (reduce_by/100) * ((y -
\* latest)/n)), which at y = target_year is source * (1 - reduce_by/100);
\* the copy of a row that fails the mask keeps the source value.
C1_LinearReduction ==
    (Returned(LinearOps) /\ Span(data, call.target_year) > 0) =>
        LET n == call.target_year - MaxYear(data)
            k == Cardinality(LatestAt(data))
            r == call.reduce_by
        IN  /\ Len(out) = Len(data) + n * k
            /\ \A i \in 1..n, p \in 1..k :
                  LET src == NthLatest(data, p)
                      o == out[CopyPos(data, i, p)]
                  IN  /\ SameButYear(o, src, MaxYear(data) + i)
                      /\ IF Masked(src)
                         THEN /\ o.value * (100 * n) = src.value * (100 * n - r * i)
                              /\ (i = n => o.value * 100 = src.value * (100 - r))
                              /\ (r = 0 => o.value = src.value)
                         ELSE o.value = src.value

\* A 60% reduction over several years met a masked and an unmasked row.
C1_Witness ==
    /\ Returned({"projected_scenarios"})
    /\ call.reduce_by = 60
    /\ Span(data, call.target_year) > 1
    /\ \E j \in LatestAt(data) : Masked(data[j])
    /\ \E j \in LatestAt(data) : ~Masked(data[j])
    /\ \E j \in 1..Len(out) :
          /\ out[j].year = call.target_year
          /\ out[j].value = (4 * 50 * Den) \div 10

HasEntry(r) ==
    \E q \in 1..Len(mult) : mult[q].iso_code = r.iso_code /\ mult[q].year = r.year
Entry(r) ==
    mult[CHOOSE q \in 1..Len(mult) :
            mult[q].iso_code = r.iso_code /\ mult[q].year = r.year].realistic_multiplier

\* C2: every row of the extended table comes out with value = value * m,
\* m being the multiplier of its (iso_code, year) when the table has one and
\* the row satisfies the mask, and 1.0 otherwise; a row without a
\* multiplier entry keeps its value and is not null.
C2_MultiplierProjector ==
    Returned(MultiplierOps) =>
        /\ Len(out) = Len(extended)
        /\ \A j \in 1..Len(extended) :
              LET e == extended[j]
                  m == IF HasEntry(e) /\ Masked(e) THEN Entry(e) ELSE Den
              IN  /\ SameButYear(out[j], e, e.year)
                  /\ out[j].value * Den = e.value * m
                  /\ (~HasEntry(e) => out[j].value = e.value /\ out[j].value # NaN)

\* One call met a scaled row, a row kept by the mask and a row without entry.
C2_Witness ==
    /\ Returned({"projected_scenarios_with_multiplier"})
    /\ \E j \in 1..Len(extended) :
          /\ HasEntry(extended[j]) /\ Masked(extended[j])
          /\ Entry(extended[j]) # Den
          /\ out[j].value # extended[j].value
    /\ \E j \in 1..Len(extended) : HasEntry(extended[j]) /\ ~Masked(extended[j])
    /\ \E j \in 1..Len(extended) : ~HasEntry(extended[j]) /\ Masked(extended[j])

\* C10: for an empty input table the extend-then-project operations return
\* an empty table for any target_year instead of failing.
C10_EmptyInputEmptyOutput ==
    (call.op \in ProjectorOps /\ Len(data) = 0) =>
        (status = "ok" /\ out = <<>>)

(***************************************************************************)
(* The row selector as operations: SpecMask                                *)
(***************************************************************************)
\* Indicator labels: an optional head, an optional negation and a core.  The
\* data layer's labels (grants_bilateral, bilateral_concessional,
\* bilateral_non_concessional, multilateral_non_concessional, bonds, ...)
\* are among them, with other spellings of the same words.
LabelHeads ==
    {<<>>, <<"bilateral", "us">>, <<"multilateral", "us">>, <<"grants", "us">>,
     <<"Grants", "sp">>}
LabelNegations ==
    {<<>>, <<"non", "us">>, <<"non", "dash">>, <<"non", "sp">>, <<"non">>,
     <<"Non", "dash">>, <<"NON", "sp">>}
LabelCores ==
    {<<"concessional">>, <<"Concessional">>, <<"bonds">>, <<"bilateral">>,
     <<"grant">>}
Labels == {h \o n \o c : h \in LabelHeads, n \in LabelNegations, c \in LabelCores}

LabelRow(ind) ==
    [country |-> "Kenya", iso_code |-> "FRA", year |-> LATEST_INFLOWS,
     indicator |-> ind, value |-> 50 * Den]

InitMask ==
    /\ data \in {<<LabelRow(ind)>> : ind \in Labels}
    /\ mult = <<>>
    /\ call = NoCall
    /\ extended = <<>>
    /\ parts = NoParts
    /\ projected = <<>>
    /\ out = <<>>
    /\ status = "idle"

CallMaskGrantIndicators ==
    /\ status = "idle"
    /\ call' = [NoCall EXCEPT !.op = "mask_grant_indicators"]
    /\ out' = [j \in 1..Len(data) |-> mask_grant_indicators(Text(data[j].indicator))]
    /\ status' = "ok"
    /\ UNCHANGED <<data, mult, extended, parts, projected>>

CallMaskGrantAndConcessionalIndicators ==
    /\ status = "idle"
    /\ call' = [NoCall EXCEPT !.op = "mask_grant_and_concessional_indicators"]
    /\ out' = [j \in 1..Len(data) |->
                  mask_grant_and_concessional_indicators(Text(data[j].indicator))]
    /\ status' = "ok"
    /\ UNCHANGED <<data, mult, extended, parts, projected>>

CallExcludeGrantIndicators ==
    /\ status = "idle"
    /\ call' = [NoCall EXCEPT !.op = "exclude_grant_indicators"]
    /\ out' = exclude_grant_indicators(data)
    /\ status' = "ok"
    /\ UNCHANGED <<data, mult, extended, parts, projected>>

CallExcludeGrantAndConcessionalIndicators ==
    /\ status = "idle"
    /\ call' = [NoCall EXCEPT !.op = "exclude_grant_and_concessional_indicators"]
    /\ out' = exclude_grant_and_concessional_indicators(data)
    /\ status' = "ok"
    /\ UNCHANGED <<data, mult, extended, parts, projected>>

\* reduce_mask of projected_scenarios (apply_mask of the multiplier projector).
ComputeReduceMask ==
    /\ status = "idle"
    /\ \E v \in Versions :
        /\ call' = [NoCall EXCEPT !.op = "reduce_mask", !.version = v]
        /\ out' = MaskSeq(data, v)
    /\ status' = "ok"
    /\ UNCHANGED <<data, mult, extended, parts, projected>>

NextMask ==
    \/ CallMaskGrantIndicators
    \/ CallMaskGrantAndConcessionalIndicators
    \/ CallExcludeGrantIndicators
    \/ CallExcludeGrantAndConcessionalIndicators
    \/ ComputeReduceMask

SpecMask == InitMask /\ [][NextMask]_vars

(***************************************************************************)
(* Properties of the row selector (checked under SpecMask)                 *)
(***************************************************************************)
\* The label in lower case, and plain substring containment.
Lowered(s) ==
    [i \in 1..Len(s) |->
        IF \E k \in 1..26 : UpperCase[k] = s[i]
        THEN LowerCase[CHOOSE k \in 1..26 : UpperCase[k] = s[i]]
        ELSE s[i]]
HasSub(s, w) ==
    \E i \in 1..(Len(s) - Len(w) + 1) : SubSeq(s, i, i + Len(w) - 1) = w

WordGrant == Spelling.grant
WordConcessional == Spelling.concessional
\* The three strings non[- ]?concessional stands for.
MatchesNonConcessional(s) ==
    \/ HasSub(s, Spelling.non \o WordConcessional)
    \/ HasSub(s, Spelling.non \o <<"-">> \o WordConcessional)
    \/ HasSub(s, Spelling.non \o <<" ">> \o WordConcessional)

IsReducible(mode, s) ==
    IF mode = "grants"
    THEN HasSub(Lowered(s), WordGrant)
    ELSE \/ HasSub(Lowered(s), WordGrant)
         \/ /\ HasSub(Lowered(s), WordConcessional)
            /\ ~MatchesNonConcessional(Lowered(s))

\* C8: the 'grants' reduce mask is true iff the indicator contains 'grant'
\* case-insensitively; the 'concessional' reduce mask is true iff it
\* contains 'grant' or (contains 'concessional' and does not match
\* non[- ]?concessional); every indicator reducible in 'grants' mode is
\* reducible in 'concessional' mode.
C8_RowSelector ==
    (call.op = "reduce_mask") =>
        \A j \in 1..Len(data) :
            LET s == Text(data[j].indicator)
            IN  /\ out[j] = IsReducible(call.version, s)
                /\ ReduceMask("grants", s) = IsReducible("grants", s)
                /\ ReduceMask("concessional_finance", s)
                      = IsReducible("concessional_finance", s)
                /\ (ReduceMask("grants", s) => ReduceMask("concessional_finance", s))

\* The mask of 'Grants Non-Concessional' in 'concessional' mode: reducible
\* through 'Grants', whatever the case of the letters.
C8_Witness ==
    /\ call.op = "reduce_mask"
    /\ call.version = "concessional_finance"
    /\ data[1].indicator = <<"Grants", "sp", "Non", "dash", "Concessional">>
    /\ out[1] = TRUE

\* Labels of non-concessional debt: no grant, and `non` before `concessional`
\* with `_`, `-`, a space or nothing in between.
NonConcessionalDebtLabels ==
    {h \o n \o c : h \in {<<>>, <<"bilateral", "us">>, <<"multilateral", "us">>},
                   n \in LabelNegations \ {<<>>},
                   c \in {<<"concessional">>, <<"Concessional">>}}

\* C7: in 'concessional' mode no indicator labelled non-concessional is
\* reducible: mask_grant_and_concessional_indicators marks the row as not
\* grant-or-concessional (True), so exclude_grant_and_concessional_indicators
\* keeps it.
C7_NonConcessionalExempt ==
    /\ (call.op = "mask_grant_and_concessional_indicators" =>
           \A j \in 1..Len(data) :
               data[j].indicator \in NonConcessionalDebtLabels => out[j] = TRUE)
    /\ (call.op = "exclude_grant_and_concessional_indicators" =>
           ((\A j \in 1..Len(data) : data[j].indicator \in NonConcessionalDebtLabels)
               => out = data))

(***************************************************************************)
(* seek.apply_linear_reduction                                             *)
(***************************************************************************)
SetReducedInPlace(t, mask, amount, multiplier_col, output_col) ==
    [j \in 1..Len(t) |->
        IF mask[j]
        THEN [t[j] EXCEPT ![multiplier_col] = t[j][multiplier_col] - amount,
                          ![output_col] = t[j][multiplier_col] - amount]
        ELSE t[j]]

\* data.loc[mask, output_col] = data.loc[mask, multiplier_col] - amount
SetReduced(t, mask, amount, multiplier_col, output_col) ==
    [j \in 1..Len(t) |->
        IF mask[j]
        THEN [t[j] EXCEPT ![output_col] = t[j][multiplier_col] - amount]
        ELSE t[j]]

NumYearsExclusive(start_year, end_year) == end_year - start_year

\* num_years = end_year - start_year + 1; the function raises when it is <= 0.
NumYears(start_year, end_year) == end_year - start_year + 1

RECURSIVE ReduceYears(_, _, _, _, _, _, _)
\* The loop `for i, year in enumerate(range(start_year, end_year + 1))`, from i on.
ReduceYears(t, reduction, start_year, num_years, multiplier_col, output_col, i) ==
    IF i >= num_years THEN t
    ELSE ReduceYears(
             SetReduced(t, [j \in 1..Len(t) |-> t[j].year = start_year + i],
                        (reduction * (i + 1)) \div num_years,
                        multiplier_col, output_col),
             reduction, start_year, num_years, multiplier_col, output_col, i + 1)

\* apply_linear_reduction for end_year >= start_year (it raises otherwise).
apply_linear_reduction(t, reduction, start_year, end_year, multiplier_col, output_col) ==
    LET copied == [j \in 1..Len(t) |->
                      [f \in (DOMAIN t[j]) \cup {output_col} |->
                          IF f = output_col THEN t[j][multiplier_col] ELSE t[j][f]]]
        ramped == ReduceYears(copied, reduction, start_year,
                              NumYears(start_year, end_year),
                              multiplier_col, output_col, 0)
    IN  SetReduced(ramped, [j \in 1..Len(t) |-> t[j].year > end_year], reduction,
                   multiplier_col, output_col)

(***************************************************************************)
(* Group and sum                                                           *)
(***************************************************************************)
FirstValue(t) == IF Len(t) = 0 THEN 0 ELSE Head(t).value

RECURSIVE SumValues(_)
SumValues(t) == IF Len(t) = 0 THEN 0 ELSE Head(t).value + SumValues(Tail(t))

KeyWithValue(r, keys) == [f \in keys \cup {"value"} |-> r[f]]

\* The key of a row under a list of grouping columns.
KeyOf(r, keys) == [f \in keys |-> r[f]]

\* The columns that hold labels, where a value can be missing (year cannot).
LabelColumns ==
    {"country", "continent", "income_level", "prices", "indicator_type",
     "indicator", "counterpart_area", "counterpart_type", "iso_code",
     "scenario"}

HasMissingKey(r, keys) == \E f \in keys \cap LabelColumns : r[f] = NULL

RECURSIVE GroupRows(_, _, _)
\* One row per distinct key of t from position j on, with the sum of value
\* over the whole group; groups come in order of first appearance (pandas
\* sorts them, which changes no row).
GroupRows(t, keys, j) ==
    IF j > Len(t) THEN <<>>
    ELSE (IF \E i \in 1..(j - 1) : KeyOf(t[i], keys) = KeyOf(t[j], keys)
          THEN <<>>
          ELSE << [f \in keys \cup {"value"} |->
                     IF f = "value"
                     THEN SumValues(SelectSeq(t,
                              LAMBDA r : KeyOf(r, keys) = KeyOf(t[j], keys)))
                     ELSE t[j][f]] >>)
         \o GroupRows(t, keys, j + 1)

GroupSumDropNa(t, keys, dropna) ==
    GroupRows(SelectSeq(t, LAMBDA r : ~HasMissingKey(r, keys)), keys, 1)

Ungrouped(t, keys, dropna) ==
    [j \in 1..Len(t) |-> [f \in keys \cup {"value"} |-> t[j][f]]]

\* data.groupby(keys, observed=True, dropna=dropna)["value"].sum().reset_index()
GroupSum(t, keys, dropna) ==
    GroupRows(IF dropna THEN SelectSeq(t, LAMBDA r : ~HasMissingKey(r, keys)) ELSE t,
              keys, 1)

\* data.columns, and data.assign(column=label) for the columns named in
\* `labels` (a record); a groupby over data.columns drops an assigned column
\* that data does not have, so only those of the row are set.
Columns(t) == IF Len(t) = 0 THEN {} ELSE DOMAIN t[1]
Assign(t, labels) ==
    [j \in 1..Len(t) |->
        [f \in DOMAIN t[j] |-> IF f \in DOMAIN labels THEN labels[f] ELSE t[j][f]]]

(***************************************************************************)
(* Scenario composer (projected_inflows_scenario, both modules)            *)
(***************************************************************************)
\* The scenario's decreasing-entities table, multiplier column and reductions.
ScenarioSeek(scenario, m) ==
    IF scenario = 2 THEN m
    ELSE apply_linear_reduction(m, Den \div 10, 2025, 2027,
                                "realistic_multiplier", "realistic_multiplier_reduced")
ScenarioCol(scenario) ==
    IF scenario = 2 THEN "realistic_multiplier" ELSE "realistic_multiplier_reduced"
ReductionUSA(scenario) == IF scenario = 2 THEN 60 ELSE 80
ReductionRestSwapped(scenario) == IF scenario = 2 THEN 10 ELSE 0
ReductionRest(scenario) == IF scenario = 2 THEN 0 ELSE 10

\* is_seek = data["iso_code"].isin(seek_scenarios["iso_code"])
IsSeek(r, seek) == \E q \in 1..Len(seek) : seek[q].iso_code = r.iso_code
DataSeek(t, seek) == SelectSeq(t, LAMBDA r : IsSeek(r, seek))
DataOther(t, seek) == SelectSeq(t, LAMBDA r : ~IsSeek(r, seek))
DataUs(other) == SelectSeq(other, LAMBDA r : r.iso_code = "USA")
DataRestNotNull(other) ==
    SelectSeq(other, LAMBDA r : r.iso_code # "USA" /\ r.iso_code # NULL)
DataRest(other) == SelectSeq(other, LAMBDA r : r.iso_code # "USA")

Partition(t, seek) ==
    [seek |-> DataSeek(t, seek),
     us |-> DataUs(DataOther(t, seek)),
     rest |-> DataRest(DataOther(t, seek))]

\* pd.concat of tables with different columns: the missing column is NaN.
WithMultiplierColumn(t) ==
    [j \in 1..Len(t) |->
        [country |-> t[j].country, iso_code |-> t[j].iso_code, year |-> t[j].year,
         indicator |-> t[j].indicator, value |-> t[j].value, multiplier |-> NaN]]

\* projected.drop(columns=[multiplier column]) in the ODA composer / add_dac_total
DropMultiplierColumn(t) ==
    [j \in 1..Len(t) |-> [f \in (DOMAIN t[j]) \ {"multiplier"} |-> t[j][f]]]

OUTPUT_GROUPER ==
    {"year", "country", "continent", "income_level", "prices", "indicator_type"}

\* groupby(OUTPUT_GROUPER, observed=True, dropna=False)["value"].sum(), on
\* the columns of OUTPUT_GROUPER the table of the model carries.
GroupByOutputGrouper(t) == GroupSum(t, OUTPUT_GROUPER \cap Columns(t), FALSE)

\* add_dac_total: the total groups by every column but value (groupby's
\* default dropna=True), with donor_name, donor_code and iso_code overwritten.
add_dac_total(t) ==
    LET d == DropMultiplierColumn(t)
    IN  GroupSum(Assign(d, [country |-> "DAC Countries", iso_code |-> "DAC"]),
                 Columns(d) \ {"value"}, TRUE)
        \o d

AnyScenario(scenario) == TRUE

\* The scenarios with a branch; any other value reaches the else that raises.
SupportedScenario(scenario) == scenario \in {2, 3}

\* projected_inflows_scenario of inflow_scenarios.py: what it leaves in
\* status, parts, projected and out.
ComposeInflows(t, m, version, scenario) ==
    IF ~SupportedScenario(scenario)
    THEN [status |-> "ValueError", parts |-> NoParts, projected |-> <<>>, out |-> <<>>]
    ELSE
    LET seek == ScenarioSeek(scenario, m)
        p == Partition(t, seek)
    IN  IF Raises(p.seek) \/ Raises(p.us) \/ Raises(p.rest)
        THEN [status |-> "TypeError", parts |-> p, projected |-> <<>>, out |-> <<>>]
        ELSE
        LET data_seek == projected_scenarios_with_multiplier(
                             p.seek, seek, version, ScenarioCol(scenario), TargetYear)
            data_us == projected_scenarios(
                           p.us, version, ReductionUSA(scenario), TargetYear)
            data_rest == projected_scenarios(
                             p.rest, version, ReductionRest(scenario), TargetYear)
            all == data_seek \o WithMultiplierColumn(data_us)
                       \o WithMultiplierColumn(data_rest)
        IN  [status |-> "ok", parts |-> p, projected |-> all,
             out |-> GroupByOutputGrouper(all)]

\* projected_inflows_scenario of aid_scenarios.py.
ComposeOda(t, m, scenario) ==
    IF ~SupportedScenario(scenario)
    THEN [status |-> "ValueError", parts |-> NoParts, projected |-> <<>>, out |-> <<>>]
    ELSE
    LET seek == ScenarioSeek(scenario, m)
        p == Partition(t, seek)
    IN  IF Raises(p.seek) \/ Raises(p.us) \/ Raises(p.rest)
        THEN [status |-> "TypeError", parts |-> p, projected |-> <<>>, out |-> <<>>]
        ELSE
        LET data_seek == projected_oda_with_multiplier(
                             p.seek, seek, ScenarioCol(scenario), TargetYear)
            data_us == projected_oda_scenarios(p.us, ReductionUSA(scenario), TargetYear)
            data_rest == projected_oda_scenarios(
                             p.rest, ReductionRest(scenario), TargetYear)
            all == data_seek \o WithMultiplierColumn(data_us)
                       \o WithMultiplierColumn(data_rest)
        IN  [status |-> "ok", parts |-> p, projected |-> all,
             out |-> add_dac_total(all)]

(***************************************************************************)
(* The scenario functions as operations: SpecCompose                       *)
(***************************************************************************)
\* Input tables of the composer, after add_iso_codes_column: at most one row
\* per counterpart.  FRA and USA rows are of either indicator, GBR and JPN
\* rows are grants of either year, the row without iso_code is of the latest
\* year.  USA rows carry 100.0, the others 50.0.
EntityRow(iso, year, ind) ==
    [country |-> IF iso \in {"GBR", "JPN"} THEN "Ghana" ELSE "Kenya",
     iso_code |-> iso, year |-> year, indicator |-> ind,
     value |-> IF iso = "USA" THEN 100 * Den ELSE 50 * Den]

EntityChoices(iso) ==
    {<<>>} \cup
    {<<EntityRow(iso, y, ind)>> :
        y \in (IF iso = NULL THEN {LATEST_INFLOWS} ELSE Years),
        ind \in (IF iso \in {"FRA", "USA"}
                 THEN {grants_bilateral, bilateral_concessional}
                 ELSE {grants_bilateral})}

TablesC ==
    {f \o u \o g \o j \o x :
        f \in EntityChoices("FRA"), u \in EntityChoices("USA"),
        g \in EntityChoices("GBR"), j \in EntityChoices("JPN"),
        x \in EntityChoices(NULL)}

SeekTablesC ==
    {MultTable("FRA", PathExample),
     MultTable("FRA", PathHist),
     MultTable("FRA", PathHist) \o MultTable("GBR", PathExample)}

Scenarios == {2, 3, 4}

InitCompose ==
    /\ data \in TablesC
    /\ mult \in SeekTablesC
    /\ call = NoCall
    /\ extended = <<>>
    /\ parts = NoParts
    /\ projected = <<>>
    /\ out = <<>>
    /\ status = "idle"

\* projected_inflows_scenario1: projected_scenarios with reduce_by = 0, grouped.
CallProjectedInflowsScenario1 ==
    /\ status = "idle"
    /\ \E v \in Versions :
        /\ call' = [NoCall EXCEPT !.op = "projected_inflows_scenario1",
                                  !.version = v, !.reduce_by = 0,
                                  !.target_year = TargetYear]
        /\ IF Raises(data)
           THEN /\ status' = "TypeError"
                /\ UNCHANGED <<projected, out>>
           ELSE /\ status' = "ok"
                /\ projected' = projected_scenarios(data, v, 0, TargetYear)
                /\ out' = GroupByOutputGrouper(
                              projected_scenarios(data, v, 0, TargetYear))
    /\ UNCHANGED <<data, mult, extended, parts>>

CallProjectedInflowsScenario ==
    /\ status = "idle"
    /\ \E v \in Versions, sc \in Scenarios :
        LET res == ComposeInflows(data, mult, v, sc)
        IN  /\ call' = [NoCall EXCEPT !.op = "projected_inflows_scenario",
                                      !.version = v, !.scenario = sc,
                                      !.target_year = TargetYear]
            /\ status' = res.status
            /\ parts' = res.parts
            /\ projected' = res.projected
            /\ out' = res.out
    /\ UNCHANGED <<data, mult, extended>>

CallProjectedInflowsScenarioOda ==
    /\ status = "idle"
    /\ \E sc \in Scenarios :
        LET res == ComposeOda(data, mult, sc)
        IN  /\ call' = [NoCall EXCEPT !.op = "aid_scenarios.projected_inflows_scenario",
                                      !.scenario = sc, !.target_year = TargetYear]
            /\ status' = res.status
            /\ parts' = res.parts
            /\ projected' = res.projected
            /\ out' = res.out
    /\ UNCHANGED <<data, mult, extended>>

NextCompose ==
    \/ CallProjectedInflowsScenario1
    \/ CallProjectedInflowsScenario
    \/ CallProjectedInflowsScenarioOda

SpecCompose == InitCompose /\ [][NextCompose]_vars

(***************************************************************************)
(* Properties of the scenario functions (checked under SpecCompose)        *)
(***************************************************************************)
ComposerOps ==
    {"projected_inflows_scenario", "aid_scenarios.projected_inflows_scenario"}
ScenarioOps == ComposerOps \cup {"projected_inflows_scenario1"}

\* The composer got as far as partitioning its input.
Partitioned == call.op \in ComposerOps /\ status \in {"ok", "TypeError"}

Occurrences(t, r) == Cardinality({j \in 1..Len(t) : t[j] = r})
SameKey(a, b) ==
    /\ a.country = b.country
    /\ a.iso_code = b.iso_code
    /\ a.year = b.year
    /\ a.indicator = b.indicator
KeyOccurrences(t, r) == Cardinality({j \in 1..Len(t) : SameKey(t[j], r)})

SeekCodes == {mult[q].iso_code : q \in 1..Len(mult)}

\* C3: the composer routes every input row to exactly one of the partitions
\* seek (iso_code in the decreasing-entities table), dominant (iso_code =
\* "USA", not in seek) and rest (everything else, a missing iso_code
\* included): no row is in two and none is in none, and when the three
\* projections return, the recombined table holds each original row once.
C3_Partition ==
    Partitioned =>
        /\ \A j \in 1..Len(data) :
            LET r == data[j]
                n == Occurrences(data, r)
            IN  /\ Occurrences(parts.seek, r)
                     = (IF r.iso_code \in SeekCodes THEN n ELSE 0)
                /\ Occurrences(parts.us, r)
                     = (IF r.iso_code \notin SeekCodes /\ r.iso_code = "USA"
                        THEN n ELSE 0)
                /\ Occurrences(parts.rest, r)
                     = (IF r.iso_code \notin SeekCodes /\ r.iso_code # "USA"
                        THEN n ELSE 0)
        /\ Len(parts.seek) + Len(parts.us) + Len(parts.rest) = Len(data)
        /\ status = "ok" =>
               \A j \in 1..Len(data) :
                   KeyOccurrences(projected, data[j]) = KeyOccurrences(data, data[j])

C3_Witness ==
    /\ Returned(ComposerOps)
    /\ Len(parts.seek) > 0
    /\ Len(parts.us) > 0
    /\ Len(parts.rest) > 1
    /\ \E j \in 1..Len(parts.rest) : parts.rest[j].iso_code = NULL
    /\ \E j \in 1..Len(parts.rest) : parts.rest[j].iso_code = "JPN"

\* The entities of a table at a year, the DAC total of add_dac_total aside.
Entities(t) ==
    {t[j].country : j \in {q \in 1..Len(t) : t[q].country # "DAC Countries"}}
EntitiesAt(t, y) ==
    {t[j].country :
        j \in {q \in 1..Len(t) : t[q].year = y /\ t[q].country # "DAC Countries"}}

\* C4: when the composer returns, the set of entities of the output at every
\* projected year latest+1..2027 equals the set of entities of the input,
\* whatever years each entity has rows for.
C4_PartitionCompleteness ==
    Returned(ComposerOps) =>
        \A y \in (MaxYear(data) + 1)..TargetYear :
            EntitiesAt(out, y) = Entities(data)

\* What the scenario function makes of the input rows themselves: the
\* grouped sums in inflow_scenarios, the rows and their DAC total in
\* aid_scenarios.
Regrouped(t) ==
    IF call.op = "aid_scenarios.projected_inflows_scenario"
    THEN add_dac_total(t)
    ELSE GroupByOutputGrouper(t)

SameRows(a, b) ==
    /\ \A j \in 1..Len(a) : Occurrences(a, a[j]) = Occurrences(b, a[j])
    /\ \A j \in 1..Len(b) : Occurrences(a, b[j]) = Occurrences(b, b[j])

\* C5: a scenario function that returns has rescaled projected years only:
\* the output restricted to the years <= the latest year of the input is the
\* input (summed per output key), for every partition and multiplier table.
C5_HistoricalUnchanged ==
    Returned(ScenarioOps) =>
        SameRows(SelectSeq(out, LAMBDA r : r.year <= MaxYear(data)),
                 Regrouped(data))

HasRow(t, iso, y, v) ==
    /\ \E j \in 1..Len(t) : t[j].iso_code = iso /\ t[j].year = y
    /\ \A j \in 1..Len(t) :
           (t[j].iso_code = iso /\ t[j].year = y) => t[j].value = v

ExampleUSA == EntityRow("USA", LATEST_INFLOWS, grants_bilateral)
ExampleFRA == EntityRow("FRA", LATEST_INFLOWS, grants_bilateral)

\* C6: for a table with USA 100 at 2023 and FRA 50 at 2023 (both rows
\* masked), FRA in the decreasing-entities table with multipliers 1.0, 0.9,
\* 0.8 at 2023..2025, the scenario with reductions USA 60 / rest 0 returns a
\* table with USA@2025 = 40.0, FRA@2024 = 45.0 and FRA@2025 = 40.0.
C6_ScenarioExample ==
    ( /\ call.op = "projected_inflows_scenario"
      /\ call.scenario = 2
      /\ mult = MultTable("FRA", PathExample)
      /\ Occurrences(data, ExampleUSA) = 1
      /\ Occurrences(data, ExampleFRA) = 1 )
    => /\ status = "ok"
       /\ HasRow(projected, "USA", 2025, 40 * Den)
       /\ HasRow(projected, "FRA", 2024, 45 * Den)
       /\ HasRow(projected, "FRA", 2025, 40 * Den)

(***************************************************************************)
(* Historical rows through projected_scenarios (checked under Spec)        *)
(***************************************************************************)
\* C11: projected_scenarios never changes historical rows: every input row
\* (year <= latest, the max year before extension) is in the output with the
\* same value and fields, at its place, and every other row of the output
\* has year > latest.
C11_HistoricalRowsKept ==
    Returned({"projected_scenarios"}) =>
        /\ Len(out) >= Len(data)
        /\ \A j \in 1..Len(data) : out[j] = data[j]
        /\ \A j \in (Len(data) + 1)..Len(out) : out[j].year > MaxYear(data)

C11_Witness ==
    /\ Returned({"projected_scenarios"})
    /\ call.reduce_by = 60
    /\ call.target_year > MaxYear(data)
    /\ Len(out) > Len(data)
    /\ \E j \in 1..Len(data) : data[j].year < MaxYear(data) /\ Masked(data[j])
    /\ \E j \in 1..Len(data) : data[j].year = MaxYear(data) /\ Masked(data[j])

\* The multiplier table has at most one row per (iso_code, year).
UniqueMultiplierKeys ==
    \A i, j \in 1..Len(mult) :
        (mult[i].iso_code = mult[j].iso_code /\ mult[i].year = mult[j].year)
            => i = j

\* C29: when the multiplier table has at most one row per (iso_code, year),
\* the output of projected_scenarios_with_multiplier has exactly one row for
\* every row of the extended table, in the same number and with the same
\* fields other than value: the left join duplicates and loses no data row.
C29_JoinPreservesRows ==
    (Returned({"projected_scenarios_with_multiplier"}) /\ UniqueMultiplierKeys) =>
        /\ Len(out) = Len(extended)
        /\ \A j \in 1..Len(out) :
              \A f \in (DOMAIN extended[j]) \ {"value"} : out[j][f] = extended[j][f]

\* A join in which one extended row finds its multiplier and another finds
\* none.
C29_Witness ==
    /\ Returned({"projected_scenarios_with_multiplier"})
    /\ UniqueMultiplierKeys
    /\ Len(mult) > 0
    /\ Len(extended) > Len(data)
    /\ Len(out) = Len(extended)
    /\ \E j \in 1..Len(out) : out[j].multiplier # NaN
    /\ \E j \in 1..Len(out) : out[j].multiplier = NaN

(***************************************************************************)
(* projected_scenarios applied to its own output: SpecTwice                *)
(***************************************************************************)
InitTwice ==
    /\ data \in TablesP
    /\ mult = <<>>
    /\ call = NoCall
    /\ extended = <<>>
    /\ parts = NoParts
    /\ projected = <<>>
    /\ out = <<>>
    /\ status = "idle"

\* The first call: its extension stage in `extended`, its result in `projected`.
ProjectOnce ==
    /\ status = "idle"
    /\ \E v \in Versions, r \in Reductions, ty \in Targets :
        /\ call' = [NoCall EXCEPT !.op = "projected_scenarios", !.version = v,
                                  !.reduce_by = r, !.target_year = ty]
        /\ IF Raises(data)
           THEN /\ status' = "TypeError"
                /\ UNCHANGED <<extended, projected>>
           ELSE /\ status' = "ok"
                /\ extended' = Extend(data, ty)
                /\ projected' = projected_scenarios(data, v, r, ty)
    /\ UNCHANGED <<data, mult, parts, out>>

\* The extension stage run on the extended table, to the same year.
ExtendAgain ==
    /\ status = "ok"
    /\ out' = Extend(extended, call.target_year)
    /\ status' = "extended again"
    /\ UNCHANGED <<data, mult, call, extended, parts, projected>>

\* The second call, on the result of the first with the same arguments.
ProjectAgain ==
    /\ status = "ok"
    /\ out' = projected_scenarios(projected, call.version, call.reduce_by,
                                  call.target_year)
    /\ status' = "projected again"
    /\ UNCHANGED <<data, mult, call, extended, parts, projected>>

NextTwice ==
    \/ ProjectOnce
    \/ ExtendAgain
    \/ ProjectAgain

SpecTwice == InitTwice /\ [][NextTwice]_vars

\* C12: extending the already extended table again to the same year changes
\* nothing, and projected_scenarios with reduce_by = 0 applied twice to the
\* same target equals applying it once.
C12_ExtensionIdempotent ==
    /\ status = "extended again" => out = extended
    /\ (status = "projected again" /\ call.reduce_by = 0) => out = projected

C12_Witness ==
    /\ status = "extended again"
    /\ call.target_year > MaxYear(data)
    /\ Len(extended) > Len(data)
    /\ \E j \in 1..Len(data) : data[j].year < MaxYear(data)

(***************************************************************************)
(* Scenario parameters (checked under SpecCompose)                         *)
(***************************************************************************)
\* The rows the composer's projectors reduce: all of them in aid_scenarios,
\* those of the version's mask in inflow_scenarios.
MaskedC(r) ==
    \/ call.op = "aid_scenarios.projected_inflows_scenario"
    \/ ReduceMask(call.version, Text(r.indicator))

\* What scenario 3 takes off realistic_multiplier: a third of 0.1 more each
\* year of 2025..2027, 0.1 afterwards.
Ramp(y) ==
    IF y < 2025 THEN 0
    ELSE IF y > 2027 THEN Den \div 10
    ELSE ((y - 2024) * Den) \div 30

\* The row of `projected` at the target year that continues row r.
AtTarget(r) ==
    projected[CHOOSE j \in 1..Len(projected) :
                 /\ projected[j].iso_code = r.iso_code
                 /\ projected[j].indicator = r.indicator
                 /\ projected[j].country = r.country
                 /\ projected[j].year = TargetYear]

\* C13: scenario 2 joins realistic_multiplier to the seek partition, reduces
\* USA rows by 60% and the rest by 0%; scenario 3 joins
\* realistic_multiplier_reduced, reduces USA rows by 80% and the rest by
\* 10%: at 2027 a masked USA row is 0.4 or 0.2 times its latest-year value, a
\* masked rest row 1.0 or 0.9 times.
C13_ScenarioParameters ==
    Returned(ComposerOps) =>
        /\ \A j \in 1..Len(projected) :
              LET p == projected[j]
              IN  (p.iso_code \in SeekCodes /\ HasEntry(p)) =>
                      p.multiplier = (IF call.scenario = 2 THEN Entry(p)
                                      ELSE Entry(p) - Ramp(p.year))
        /\ \A j \in 1..Len(parts.us) :
              LET r == parts.us[j]
              IN  (r.year = MaxYear(parts.us) /\ MaskedC(r)) =>
                      AtTarget(r).value * 10
                          = r.value * (IF call.scenario = 2 THEN 4 ELSE 2)
        /\ \A j \in 1..Len(parts.rest) :
              LET r == parts.rest[j]
              IN  (r.year = MaxYear(parts.rest) /\ MaskedC(r)) =>
                      AtTarget(r).value * 10
                          = r.value * (IF call.scenario = 2 THEN 10 ELSE 9)

C13_Witness ==
    /\ Returned(ComposerOps)
    /\ call.scenario = 3
    /\ \E j \in 1..Len(parts.us) : MaskedC(parts.us[j])
    /\ \E j \in 1..Len(parts.rest) :
          parts.rest[j].year = MaxYear(parts.rest) /\ MaskedC(parts.rest[j])
    /\ \E j \in 1..Len(projected) :
          /\ projected[j].iso_code \in SeekCodes
          /\ projected[j].year = 2026
          /\ projected[j].multiplier = (6 * Den) \div 10 + Den \div 30

\* C23: a scenario identifier other than 2 or 3 makes
\* projected_inflows_scenario fail with a ValueError before any partition is
\* projected: no partition, no projected row and no table is left, and no
\* default scenario is used instead; 2 and 3 never raise ValueError.
C23_UnsupportedScenario ==
    (call.op \in ComposerOps) =>
        /\ call.scenario \notin {2, 3} =>
              /\ status = "ValueError"
              /\ parts = NoParts
              /\ projected = <<>>
              /\ out = <<>>
        /\ call.scenario \in {2, 3} => status # "ValueError"

\* Scenario 4 asked for on a table that scenarios 2 and 3 project.
C23_Witness ==
    /\ call.op = "projected_inflows_scenario"
    /\ call.scenario = 4
    /\ status = "ValueError"
    /\ Len(data) = 3
    /\ ComposeInflows(data, mult, call.version, 3).status = "ok"

(***************************************************************************)
(* The decreasing-entities table of a scenario: SpecSeek                   *)
(***************************************************************************)
\* realistic_multiplier is a ratio to the 2023 value: 1.0 at 2023, and one of
\* these at each later year.
Ratios == {0, Den \div 20, Den \div 2, Den}
LastSeekYear == 2028

RatioPaths ==
    {(2023 :> Den) @@ p : p \in [2024..LastSeekYear -> Ratios]}

RECURSIVE SeekRows(_, _, _)
SeekRows(iso, path, y) ==
    IF y > LastSeekYear THEN <<>>
    ELSE << [iso_code |-> iso, year |-> y, realistic_multiplier |-> path[y]] >>
         \o SeekRows(iso, path, y + 1)

InitSeek ==
    /\ data = <<>>
    /\ mult \in {SeekRows("FRA", p, 2023) : p \in RatioPaths}
    /\ call = NoCall
    /\ extended = <<>>
    /\ parts = NoParts
    /\ projected = <<>>
    /\ out = <<>>
    /\ status = "idle"

\* seek_scenarios and multiplier_col as the composer sets them for a scenario.
SelectScenarioSeek ==
    /\ status = "idle"
    /\ \E sc \in {2, 3} :
        /\ call' = [NoCall EXCEPT !.op = "seek_scenarios", !.scenario = sc,
                                  !.multiplier_col = ScenarioCol(sc)]
        /\ out' = ScenarioSeek(sc, mult)
    /\ status' = "ok"
    /\ UNCHANGED <<data, mult, extended, parts, projected>>

\* apply_linear_reduction with its default column names; the table as it was
\* handed over is kept in `extended`.
CallApplyLinearReduction ==
    /\ status = "idle"
    /\ \E reduction \in {Den \div 10, Den \div 2},
          start_year \in {2024, 2025}, end_year \in {2024, 2027} :
        /\ call' = [NoCall EXCEPT !.op = "apply_linear_reduction",
                                  !.reduce_by = reduction,
                                  !.start_year = start_year,
                                  !.target_year = end_year,
                                  !.multiplier_col = "realistic_multiplier_reduced"]
        /\ IF NumYears(start_year, end_year) <= 0
           THEN /\ status' = "ValueError"
                /\ UNCHANGED out
           ELSE /\ status' = "ok"
                /\ out' = apply_linear_reduction(
                              mult, reduction, start_year, end_year,
                              "realistic_multiplier", "realistic_multiplier_reduced")
    /\ extended' = mult
    /\ UNCHANGED <<data, mult, parts, projected>>

NextSeek ==
    \/ SelectScenarioSeek
    \/ CallApplyLinearReduction

SpecSeek == InitSeek /\ [][NextSeek]_vars

\* C14: given a decreasing-entities table whose realistic_multiplier values
\* are all >= 0, every value of the column the scenario uses
\* (realistic_multiplier in scenario 2, realistic_multiplier_reduced in
\* scenario 3) is >= 0, for every entity and year.
C14_MultiplierNonNegative ==
    (call.op = "seek_scenarios" /\ status = "ok"
        /\ \A q \in 1..Len(mult) : mult[q].realistic_multiplier >= 0)
    => \A q \in 1..Len(out) : out[q][call.multiplier_col] >= 0

\* C24: apply_linear_reduction raises ValueError exactly when end_year <
\* start_year (a one-year window, end_year = start_year, is accepted); when
\* it raises, no table is returned and the table of the caller is unchanged.
C24_ReductionWindow ==
    (call.op = "apply_linear_reduction") =>
        /\ (status = "ValueError") <=> (call.target_year < call.start_year)
        /\ status \in {"ok", "ValueError"}
        /\ (status = "ValueError") => (out = <<>> /\ mult = extended)

\* A window that ends before it starts.
C24_Witness ==
    /\ call.op = "apply_linear_reduction"
    /\ call.start_year = 2025
    /\ call.target_year = 2024
    /\ status = "ValueError"
    /\ Len(mult) > 0

\* C25: apply_linear_reduction gives every row output_col = multiplier_col
\* before start_year, multiplier_col - reduction * (year - start_year + 1) /
\* (end_year - start_year + 1) from start_year to end_year, and
\* multiplier_col - reduction after end_year; multiplier_col and every other
\* column are as in the input.
C25_LinearReduction ==
    (call.op = "apply_linear_reduction" /\ status = "ok") =>
        /\ Len(out) = Len(mult)
        /\ \A q \in 1..Len(out) :
              LET m == mult[q].realistic_multiplier
                  o == out[q].realistic_multiplier_reduced
                  y == mult[q].year
                  n == call.target_year - call.start_year + 1
              IN  /\ DOMAIN out[q] = (DOMAIN mult[q]) \cup {"realistic_multiplier_reduced"}
                  /\ \A f \in DOMAIN mult[q] : out[q][f] = mult[q][f]
                  /\ y < call.start_year => o = m
                  /\ (call.start_year <= y /\ y <= call.target_year)
                        => (m - o) * n = call.reduce_by * (y - call.start_year + 1)
                  /\ y > call.target_year => o = m - call.reduce_by

\* A reduction of 0.1 over 2025..2027: two thirds of it at 2026, all of it at
\* 2028, none at 2024.
C25_Witness ==
    /\ call.op = "apply_linear_reduction"
    /\ status = "ok"
    /\ call.start_year = 2025
    /\ call.target_year = 2027
    /\ call.reduce_by = Den \div 10
    /\ \E q \in 1..Len(out) :
          /\ out[q].year = 2026
          /\ out[q].realistic_multiplier = Den \div 2
          /\ out[q].realistic_multiplier_reduced = Den \div 2 - (2 * Den) \div 30
    /\ \E q \in 1..Len(out) :
          /\ out[q].year = 2028
          /\ out[q].realistic_multiplier_reduced
                 = out[q].realistic_multiplier - Den \div 10
    /\ \E q \in 1..Len(out) :
          /\ out[q].year = 2024
          /\ out[q].realistic_multiplier_reduced = out[q].realistic_multiplier

(***************************************************************************)
(* The developing-countries total ahead of the scenario composer           *)
(***************************************************************************)
create_dev_countries_total(t) ==
    GroupSum(Assign(t, [country |-> "Developing countries", income_level |-> "All",
                        continent |-> "World", iso_code |-> "DEV"]),
             Columns(t) \ {"value"}, FALSE)

\* get_latest_inflows, from the inflow rows of all_flows_pipeline on: the
\* total ahead of the rows, the latest year kept.
get_latest_inflows(t) ==
    LET inflows_data == create_dev_countries_total(t) \o t
    IN  SelectSeq(inflows_data, LAMBDA r : r.year = MaxYear(inflows_data))

\* bblocks.add_iso_codes_column on the counterparts of the model; a
\* counterpart that is no country gets no code.
CounterpartCodes ==
    [France |-> "FRA", United_States |-> "USA", United_Kingdom |-> "GBR",
     Japan |-> "JPN", China |-> "CHN"]
IsoCodeOf(name) ==
    IF name \in DOMAIN CounterpartCodes THEN CounterpartCodes[name] ELSE NULL
add_iso_codes_column(t, id_column) ==
    [j \in 1..Len(t) |->
        [f \in (DOMAIN t[j]) \cup {"iso_code"} |->
            IF f = "iso_code" THEN IsoCodeOf(t[j][id_column]) ELSE t[j][f]]]

\* The rows of the composer's input domain as the pipeline hands them over:
\* counterpart_area in place of the code add_iso_codes_column derives from it.
CounterpartOf(iso) ==
    IF iso = NULL THEN "World Bank"
    ELSE CHOOSE name \in DOMAIN CounterpartCodes : CounterpartCodes[name] = iso
InflowRows(t) ==
    [j \in 1..Len(t) |->
        [country |-> t[j].country, counterpart_area |-> CounterpartOf(t[j].iso_code),
         year |-> t[j].year, indicator |-> t[j].indicator, value |-> t[j].value]]

(***************************************************************************)
(* Scenarios on tables that carry totals: SpecTotals                       *)
(***************************************************************************)
\* The scenario run of inflow_scenarios.py: get_latest_inflows, then the
\* composer on its result.
CallScenarioOnLatestInflows ==
    /\ status = "idle"
    /\ \E v \in Versions, sc \in {2, 3} :
        LET latest == get_latest_inflows(InflowRows(data))
            res == ComposeInflows(add_iso_codes_column(latest, "counterpart_area"),
                                  mult, v, sc)
        IN  /\ call' = [NoCall EXCEPT !.op = "get_latest_inflows",
                                      !.version = v, !.scenario = sc,
                                      !.target_year = TargetYear]
            /\ status' = res.status
            /\ parts' = res.parts
            /\ projected' = res.projected
            /\ out' = res.out
    /\ extended' = get_latest_inflows(InflowRows(data))
    /\ UNCHANGED <<data, mult>>

NextTotals ==
    \/ CallScenarioOnLatestInflows
    \/ CallProjectedInflowsScenarioOda

SpecTotals == InitCompose /\ [][NextTotals]_vars

RECURSIVE Total(_)
Total(t) == IF Len(t) = 0 THEN 0 ELSE t[1].value + Total(Tail(t))

AggregateNames == {"Developing countries", "DAC Countries"}
OutYears == {out[j].year : j \in 1..Len(out)}

\* C15: after a scenario transform the aggregate rows are the sums of their
\* constituents: in the composer's output on a table with country rows and
\* the 'Developing countries' total, and in the output with the DAC total of
\* add_dac_total, the aggregate row of every key has the sum of the values
\* of the constituent rows of that key, and every key of a constituent has
\* its aggregate row.
C15_AggregatesDerivable ==
    /\ Returned({"get_latest_inflows"}) =>
          \A y \in OutYears :
              /\ Cardinality({j \in 1..Len(out) :
                     out[j].year = y /\ out[j].country = "Developing countries"}) = 1
              /\ Total(SelectSeq(out, LAMBDA r :
                     r.year = y /\ r.country = "Developing countries"))
                 = Total(SelectSeq(out, LAMBDA r :
                     r.year = y /\ r.country \notin AggregateNames))
    /\ Returned({"aid_scenarios.projected_inflows_scenario"}) =>
          \A j \in 1..Len(out) :
              /\ Cardinality({i \in 1..Len(out) :
                     /\ out[i].year = out[j].year
                     /\ out[i].indicator = out[j].indicator
                     /\ out[i].country = "DAC Countries"}) = 1
              /\ Total(SelectSeq(out, LAMBDA r :
                     /\ r.year = out[j].year /\ r.indicator = out[j].indicator
                     /\ r.country = "DAC Countries"))
                 = Total(SelectSeq(out, LAMBDA r :
                     /\ r.year = out[j].year /\ r.indicator = out[j].indicator
                     /\ r.country \notin AggregateNames))

C15_Witness ==
    /\ Returned({"get_latest_inflows"})
    /\ call.scenario = 3
    /\ \E j \in 1..Len(out) : out[j].country = "Ghana" /\ out[j].year = TargetYear
    /\ \E j \in 1..Len(out) : out[j].country = "Kenya" /\ out[j].year = TargetYear
    /\ \E j \in 1..Len(out) :
          /\ out[j].country = "Developing countries"
          /\ out[j].year = TargetYear
          /\ out[j].value < Total(SelectSeq(extended, LAMBDA r :
                                  r.country = "Developing countries"))

(***************************************************************************)
(* The rollups of the pipeline                                             *)
(***************************************************************************)
WithColumnsAll(t, cols) ==
    [j \in 1..Len(t) |->
        [f \in cols |-> IF f \in DOMAIN t[j] THEN t[j][f] ELSE "All"]]

\* pd.concat of two tables: the columns of both, NaN where a table lacks one.
WithColumns(t, cols) ==
    [j \in 1..Len(t) |->
        [f \in cols |-> IF f \in DOMAIN t[j] THEN t[j][f] ELSE NULL]]
Concat(a, b) ==
    WithColumns(a, Columns(a) \cup Columns(b))
        \o WithColumns(b, Columns(a) \cup Columns(b))

\* data[column] = label, on every row.
SetColumn(t, column, label) ==
    [j \in 1..Len(t) |->
        [f \in (DOMAIN t[j]) \cup {column} |->
            IF f = column THEN label ELSE t[j][f]]]

\* The rows prep_flows groups: iso_code present, value not zero, counterpart
\* not 'World'.
PrepFilter(t) ==
    SelectSeq(t, LAMBDA r : r.iso_code # NULL /\ r.value # 0
                            /\ r.counterpart_area # "World")
prep_flows(t) ==
    GroupSum(PrepFilter(t), Columns(PrepFilter(t)) \ {"value"}, FALSE)

summarise_by_country(t) ==
    GroupSum(t, Columns(t) \ {"value", "counterpart_area", "counterpart_type",
                              "indicator"}, FALSE)

convert_to_net_flows(t) ==
    SetColumn(GroupSum(t, Columns(t) \ {"value", "indicator_type"}, FALSE),
              "indicator_type", "net_flow")

exclude_outlier_countries(t) ==
    SelectSeq(t, LAMBDA r : r.country \notin {"China", "Ukraine", "Russia"})

add_china_as_counterpart_type(t) ==
    SelectSeq(t, LAMBDA r : r.counterpart_area # "China")
    \o SetColumn(SelectSeq(t, LAMBDA r : r.counterpart_area = "China"),
                 "counterpart_type", "China")

\* What exclusions groups when china_as_counterpart_type is set.
ExclusionsInput(t, exclude_outliers) ==
    add_china_as_counterpart_type(
        IF exclude_outliers THEN exclude_outlier_countries(t) ELSE t)

\* exclusions with remove_countries_wo_outflows = False.
exclusions(t, exclude_outliers, china_as_counterpart_type) ==
    IF china_as_counterpart_type
    THEN GroupSum(ExclusionsInput(t, exclude_outliers),
                  Columns(ExclusionsInput(t, exclude_outliers))
                      \ {"value", "counterpart_area"}, FALSE)
    ELSE IF exclude_outliers THEN exclude_outlier_countries(t) ELSE t

\* historical_inflows from the result of all_flows_pipeline on: the rows it
\* groups, the grouping (groupby's default dropna=True), the relabelling.
HistoricalInput(t, debt_only) ==
    LET inflows == SelectSeq(t, LAMBDA r : r.indicator_type = "inflow")
        inflows_data ==
            IF debt_only
            THEN SelectSeq(inflows, LAMBDA r :
                     r.indicator \notin {<<"grants", "us", "bilateral">>,
                                         <<"grants", "us", "multilateral">>})
            ELSE inflows
    IN  create_dev_countries_total(inflows_data) \o inflows_data

HistoricalGrouped(t, debt_only) ==
    GroupSum(HistoricalInput(t, debt_only),
             Columns(HistoricalInput(t, debt_only)) \ {"value", "indicator"}, TRUE)

ReplaceCounterpartType(t) ==
    [j \in 1..Len(t) |->
        [t[j] EXCEPT !.counterpart_type =
            IF @ = "Bilateral" THEN "Bilateral (excl. China)"
            ELSE IF @ = "Private" THEN "Private (excl. China)"
            ELSE @]]

historical_inflows(t, debt_only, china_as_counterpart_type) ==
    IF china_as_counterpart_type
    THEN ReplaceCounterpartType(HistoricalGrouped(t, debt_only))
    ELSE HistoricalGrouped(t, debt_only)

\* add_income_aggs: the rows it groups, the grouping (default dropna=True),
\* the aggregate rows ahead of the table.
IncomeAggsInput(t) ==
    SelectSeq(t, LAMBDA r : r.country # "Developing countries"
                            /\ r.income_level # "High income")
IncomeAggsGrouped(t) ==
    GroupSum(IncomeAggsInput(t), {"year", "income_level", "counterpart_type"}, TRUE)
add_income_aggs(t) ==
    Concat([j \in 1..Len(IncomeAggsGrouped(t)) |->
               LET g == IncomeAggsGrouped(t)[j]
               IN  [year |-> g.year, country |-> g.income_level,
                    counterpart_type |-> g.counterpart_type, value |-> g.value,
                    income_level |-> NULL, continent |-> NULL,
                    prices |-> "current", period |-> NULL]],
           t)

(***************************************************************************)
(* Aggregate totals (create_world_total, create_grouping_totals)           *)
(***************************************************************************)
GROUPS ==
    {"Developing countries", "Low income", "Lower middle income",
     "Upper middle income", "Africa", "Europe", "Asia", "America", "Oceania"}

WorldTotalRows(t, name) ==
    GroupSum(SetColumn(t, "country", name),
             Columns(t) \ {"income_level", "continent", "value"}, FALSE)
create_world_total(t, name) == Concat(t, WorldTotalRows(t, name))

\* The frames of the loop over data[group_column].unique(), concatenated: a
\* missing group label selects no row (NaN == NaN is False).
GroupingTotalRows(t, group_column, exclude_cols) ==
    LET members == SelectSeq(t, LAMBDA r : r[group_column] # NULL)
    IN  GroupSum([j \in 1..Len(members) |->
                     [members[j] EXCEPT !.country = members[j][group_column]]],
                 Columns(t) \ ({"value"} \cup exclude_cols), FALSE)

\* create_grouping_totals of a non-empty table (pd.concat of no frame raises).
create_grouping_totals(t, group_column, exclude_cols) ==
    Concat(t, GroupingTotalRows(t, group_column, exclude_cols))

\* create_groupings of a non-empty table, before and after it removes the
\* individual countries.
GroupingsAll(t) ==
    create_grouping_totals(
        create_grouping_totals(create_world_total(t, "Developing countries"),
                               "continent", {"income_level"}),
        "income_level", {"continent"})
create_groupings(t) == SelectSeq(GroupingsAll(t), LAMBDA r : r.country \in GROUPS)

(***************************************************************************)
(* The rollups as operations: SpecRollup                                   *)
(***************************************************************************)
\* Flow rows as get_total_inflows / get_debt_service_data hand them to
\* prep_flows; the later steps of the pipeline take the same columns.
BaseRow ==
    [year |-> LATEST_INFLOWS, country |-> "Kenya", continent |-> "Africa",
     income_level |-> "Lower middle income", prices |-> "current",
     indicator_type |-> "inflow", indicator |-> grants_bilateral,
     counterpart_area |-> "France", counterpart_type |-> "Bilateral",
     iso_code |-> "KEN", value |-> 50 * Den]

FlowRowP ==
    << BaseRow,
       [BaseRow EXCEPT !.indicator = bilateral_concessional, !.value = 100 * Den],
       [BaseRow EXCEPT !.counterpart_area = "China"],
       [BaseRow EXCEPT !.indicator_type = "outflow", !.value = 0 - 30 * Den],
       [BaseRow EXCEPT !.country = "Mali", !.income_level = "Low income",
                       !.iso_code = "MLI"],
       [BaseRow EXCEPT !.country = "Peru", !.continent = "America",
                       !.income_level = "Upper middle income",
                       !.iso_code = "PER", !.value = 100 * Den],
       [BaseRow EXCEPT !.country = "Niue", !.continent = "Oceania",
                       !.income_level = NULL, !.iso_code = "NIU"],
       [BaseRow EXCEPT !.year = LATEST_INFLOWS - 1, !.counterpart_type = NULL],
       [BaseRow EXCEPT !.counterpart_area = "World", !.value = 100 * Den],
       [BaseRow EXCEPT !.value = 0],
       [BaseRow EXCEPT !.country = "Kosovo", !.continent = "Europe",
                       !.income_level = "Upper middle income", !.iso_code = NULL],
       [BaseRow EXCEPT !.country = "Tuvalu", !.continent = NULL,
                       !.income_level = "Upper middle income", !.iso_code = "TUV"] >>

TablesF ==
    UNION {{[j \in 1..n |-> FlowRowP[q[j] + 1]] : q \in IndexSeqs(n, Len(FlowRowP))} :
              n \in 0..MaxRows}

\* The columns left by get_all_flows, which drops iso_code.
PipelineRows(t) ==
    [j \in 1..Len(t) |-> [f \in (DOMAIN t[j]) \ {"iso_code"} |-> t[j][f]]]

InitRollup ==
    /\ data \in TablesF
    /\ mult = <<>>
    /\ call = NoCall
    /\ extended = <<>>
    /\ parts = NoParts
    /\ projected = <<>>
    /\ out = <<>>
    /\ status = "idle"

\* A function that groups and sums has returned: the rows it grouped (after
\* its filters) are in `extended`, the groups in `projected`, its result in
\* `out`.
Rolled(op, input, groups, result) ==
    /\ call' = [NoCall EXCEPT !.op = op]
    /\ extended' = input
    /\ projected' = groups
    /\ out' = result
    /\ status' = "ok"
    /\ UNCHANGED <<data, mult, parts>>

CallPrepFlows ==
    /\ status = "idle"
    /\ Rolled("prep_flows", PrepFilter(data), prep_flows(data), prep_flows(data))

CallSummariseByCountry ==
    /\ status = "idle"
    /\ Rolled("summarise_by_country", data, summarise_by_country(data),
              summarise_by_country(data))

CallConvertToNetFlows ==
    /\ status = "idle"
    /\ Rolled("convert_to_net_flows", data,
              GroupSum(data, Columns(data) \ {"value", "indicator_type"}, FALSE),
              convert_to_net_flows(data))

CallExclusions ==
    /\ status = "idle"
    /\ \E exclude_outliers \in BOOLEAN :
           Rolled("exclusions", ExclusionsInput(data, exclude_outliers),
                  exclusions(data, exclude_outliers, TRUE),
                  exclusions(data, exclude_outliers, TRUE))

CallGroupByOutputGrouper ==
    /\ status = "idle"
    /\ Rolled("projected_inflows_scenario", data, GroupByOutputGrouper(data),
              GroupByOutputGrouper(data))

CallHistoricalInflows ==
    /\ status = "idle"
    /\ \E debt_only \in BOOLEAN, china \in BOOLEAN :
           Rolled("historical_inflows", HistoricalInput(data, debt_only),
                  HistoricalGrouped(data, debt_only),
                  historical_inflows(data, debt_only, china))

CallAddIncomeAggs ==
    /\ status = "idle"
    /\ Rolled("add_income_aggs", IncomeAggsInput(data), IncomeAggsGrouped(data),
              add_income_aggs(data))

CallAddDacTotal ==
    /\ status = "idle"
    /\ Rolled("add_dac_total",
              Assign(data, [country |-> "DAC Countries", iso_code |-> "DAC"]),
              SelectSeq(add_dac_total(data), LAMBDA r : r.country = "DAC Countries"),
              add_dac_total(data))

CallCreateWorldTotal ==
    /\ status = "idle"
    /\ \E name \in {"World", "Developing countries"} :
           Rolled("create_world_total", PipelineRows(data),
                  WorldTotalRows(PipelineRows(data), name),
                  create_world_total(PipelineRows(data), name))

\* pd.concat(dfs) of an empty list raises ValueError; group_column is kept
\* in the column field of the call.
CallCreateGroupingTotals ==
    /\ status = "idle"
    /\ \E g \in {<<"continent", "income_level">>, <<"income_level", "continent">>} :
        /\ call' = [NoCall EXCEPT !.op = "create_grouping_totals",
                                  !.multiplier_col = g[1]]
        /\ IF Len(data) = 0
           THEN /\ status' = "ValueError"
                /\ UNCHANGED <<extended, projected, out>>
           ELSE /\ status' = "ok"
                /\ extended' = PipelineRows(data)
                /\ projected' = GroupingTotalRows(PipelineRows(data), g[1], {g[2]})
                /\ out' = create_grouping_totals(PipelineRows(data), g[1], {g[2]})
    /\ UNCHANGED <<data, mult, parts>>

\* create_groupings: the chained totals in `projected`, the result in `out`.
CallCreateGroupings ==
    /\ status = "idle"
    /\ call' = [NoCall EXCEPT !.op = "create_groupings"]
    /\ IF Len(data) = 0
       THEN /\ status' = "ValueError"
            /\ UNCHANGED <<extended, projected, out>>
       ELSE /\ status' = "ok"
            /\ extended' = PipelineRows(data)
            /\ projected' = GroupingsAll(PipelineRows(data))
            /\ out' = create_groupings(PipelineRows(data))
    /\ UNCHANGED <<data, mult, parts>>

\* The grouping stage of the rollup that returned, run on its own result.
RollupAgain ==
    /\ status = "ok"
    /\ call.op \in {"prep_flows", "summarise_by_country"}
    /\ extended' = out
    /\ projected' = (IF call.op = "prep_flows"
                     THEN GroupSum(out, Columns(out) \ {"value"}, FALSE)
                     ELSE summarise_by_country(out))
    /\ status' = "again"
    /\ UNCHANGED <<data, mult, call, parts, out>>

NextRollup ==
    \/ CallPrepFlows
    \/ CallSummariseByCountry
    \/ CallConvertToNetFlows
    \/ CallExclusions
    \/ CallGroupByOutputGrouper
    \/ CallHistoricalInflows
    \/ CallAddIncomeAggs
    \/ CallAddDacTotal
    \/ CallCreateWorldTotal
    \/ CallCreateGroupingTotals
    \/ CallCreateGroupings
    \/ RollupAgain

SpecRollup == InitRollup /\ [][NextRollup]_vars

(***************************************************************************)
(* Properties of the rollups (checked under SpecRollup)                    *)
(***************************************************************************)
GroupKeys == Columns(projected) \ {"value"}

\* The group of `projected` that holds row r of `extended`.
GroupOf(r) == {i \in 1..Len(projected) :
                  KeyOf(projected[i], GroupKeys) = KeyOf(r, GroupKeys)}

\* C16: no group-and-sum step of the pipeline (prep_flows,
\* summarise_by_country, convert_to_net_flows, add_dac_total,
\* historical_inflows, add_income_aggs) drops a row because one of its
\* grouping columns is missing: every row it groups has its group, missing
\* labels included, in the result of the step.
C16_MissingKeyIsAGroup ==
    Returned({"prep_flows", "summarise_by_country", "convert_to_net_flows",
              "add_dac_total", "historical_inflows", "add_income_aggs"}) =>
        \A j \in 1..Len(extended) : GroupOf(extended[j]) # {}

ConservingOps ==
    {"prep_flows", "summarise_by_country", "convert_to_net_flows",
     "projected_inflows_scenario"}

\* C17: a grouping that drops no rows (prep_flows after its filters,
\* summarise_by_country, convert_to_net_flows, the OUTPUT_GROUPER sum of
\* projected_inflows_scenario) conserves the total: the sum of value over
\* the grouped table equals the sum of value over the rows grouped.
C17_RollupConservation ==
    Returned(ConservingOps) =>
        /\ Total(projected) = Total(extended)
        /\ Total(out) = Total(extended)

C17_Witness ==
    /\ Returned(ConservingOps)
    /\ Len(extended) = 3
    /\ Len(projected) = 2
    /\ \E j \in 1..Len(extended) : HasMissingKey(extended[j], GroupKeys)
    /\ Total(extended) # 0

\* C18: a standard rollup (summarise_by_country, the grouping stage of
\* prep_flows) applied to a table that is already its result returns the
\* same rows with the same values.
C18_RollupIdempotent ==
    status = "again" => SameRows(projected, out)

C18_Witness ==
    /\ status = "again"
    /\ Len(out) = 2
    /\ Len(out) < Len(data)
    /\ \E j \in 1..Len(out) : HasMissingKey(out[j], Columns(out))

OutKeys == Columns(out) \ {"value"}

\* C19: in the output of prep_flows, of exclusions with
\* china_as_counterpart_type and of the grouping of projected_inflows_scenario
\* no two rows share the values of all non-value columns, and a row holds the
\* sum of the input rows of its key.
C19_KeyUnique ==
    Returned({"prep_flows", "exclusions", "projected_inflows_scenario"}) =>
        /\ \A i, j \in 1..Len(out) :
              KeyOf(out[i], OutKeys) = KeyOf(out[j], OutKeys) => i = j
        /\ \A i \in 1..Len(out) :
              out[i].value
                  = Total(SelectSeq(extended, LAMBDA r :
                              KeyOf(r, OutKeys) = KeyOf(out[i], OutKeys)))

C19_Witness ==
    /\ Returned({"prep_flows", "exclusions", "projected_inflows_scenario"})
    /\ Len(out) = 2
    /\ Len(extended) = 3
    /\ \E j \in 1..Len(out) : out[j].value = 100 * Den
    /\ \E i, j \in 1..Len(extended) : i # j /\ extended[i] = extended[j]

(***************************************************************************)
(* Aggregate totals (checked under SpecRollup)                             *)
(***************************************************************************)
TotalOps == {"create_world_total", "create_grouping_totals", "create_groupings"}

\* The table the totals were appended to: the chained table in
\* create_groupings, the result otherwise.
Appended == IF call.op = "create_groupings" THEN projected ELSE out

\* The columns an aggregate row shares with its members.
SharedKeys == Columns(extended) \ {"country", "continent", "income_level", "value"}

\* The input rows an aggregate row stands for: all of them for the world
\* total, those of its continent or income level for a group total.
Members(a) ==
    SelectSeq(extended, LAMBDA r :
        /\ KeyOf(r, SharedKeys) = KeyOf(a, SharedKeys)
        /\ a.continent # NULL => (r.continent = a.continent /\ a.country = a.continent)
        /\ a.income_level # NULL =>
               (r.income_level = a.income_level /\ a.country = a.income_level))

AggregateRows == {j \in (Len(extended) + 1)..Len(Appended) : TRUE}

HasAggregate(r, label, continent, income_level) ==
    Cardinality({j \in AggregateRows :
        /\ Appended[j].country = label
        /\ Appended[j].continent = continent
        /\ Appended[j].income_level = income_level
        /\ KeyOf(Appended[j], SharedKeys) = KeyOf(r, SharedKeys)}) = 1

AveragePeriodEntries ==
    { [period |-> "2018-2022", years |-> <<2018, 2022>>, length |-> 5],
      [period |-> "2022-2023", years |-> <<2022, 2023>>, length |-> 2],
      [period |-> "2024-2025 (projected)", years |-> <<2024, 2025>>, length |-> 1] }

AveragePeriodChoices ==
    UNION {{p \in [1..n -> AveragePeriodEntries] :
               \A i, j \in 1..n : i # j => p[i] # p[j]} : n \in 1..3}

SetPeriodOnce(t, p) ==
    [j \in 1..Len(t) |->
        [f \in (DOMAIN t[j]) \cup {"period"} |->
            IF f # "period" THEN t[j][f]
            ELSE IF "period" \in DOMAIN t[j] /\ t[j]["period"] # NULL
                 THEN t[j]["period"]
                 ELSE IF t[j].year >= p.years[1] /\ t[j].year <= p.years[2]
                      THEN p.period ELSE NULL]]

\* data.loc[(data.year >= start_year) & (data.year <= end_year), "period"] =
\* period: the column is added when it is not there, and a row outside the
\* range keeps what it had.
SetPeriod(t, p) ==
    [j \in 1..Len(t) |->
        [f \in (DOMAIN t[j]) \cup {"period"} |->
            IF f # "period" THEN t[j][f]
            ELSE IF t[j].year >= p.years[1] /\ t[j].year <= p.years[2]
                 THEN p.period
                 ELSE IF "period" \in DOMAIN t[j] THEN t[j]["period"] ELSE NULL]]

RECURSIVE AssignPeriods(_, _)
\* The loop over AVERAGE_PERIODS.items(), in the order of the dictionary.
AssignPeriods(t, periods) ==
    IF Len(periods) = 0 THEN t
    ELSE AssignPeriods(SetPeriod(t, Head(periods)), Tail(periods))

\* data.dropna(subset=["period"])
DropNaPeriod(t) == SelectSeq(t, LAMBDA r : r["period"] # NULL)

PeriodSpan(periods, name) ==
    LET p == CHOOSE q \in {periods[i] : i \in 1..Len(periods)} : q.period = name
    IN  p.years[2] - p.years[1] + 1

\* AVERAGE_PERIODS[x]["length"]
PeriodLength(periods, name) ==
    (CHOOSE q \in {periods[i] : i \in 1..Len(periods)} : q.period = name).length

\* numpy's round(2) of n / d for d > 0, in hundredths: to the nearest
\* hundredth, a tie to the even one.
RoundHalfEven(n, d) ==
    LET q == n \div d
        r == n % d
    IN  IF 2 * r < d THEN q
        ELSE IF 2 * r > d THEN q + 1
        ELSE IF q % 2 = 0 THEN q ELSE q + 1

\* (data["value"] / data["length"]).round(2), and the length column dropped.
PeriodAverage(t, periods) ==
    [j \in 1..Len(t) |->
        [t[j] EXCEPT !.value =
            RoundHalfEven(t[j].value,
                          (Den \div 100) * PeriodLength(periods, t[j]["period"]))
                * (Den \div 100)]]

PeriodGrouper(china_as_counterpart_type) ==
    {"period", "country", "continent", "income_level", "prices"}
        \cup (IF china_as_counterpart_type THEN {"counterpart_type"} ELSE {})

debt_service_by_period(t, periods) ==
    PeriodAverage(GroupSum(DropNaPeriod(AssignPeriods(t, periods)),
                           PeriodGrouper(TRUE), FALSE), periods)

inflows_by_period(t, periods, china_as_counterpart_type) ==
    PeriodAverage(GroupSum(DropNaPeriod(AssignPeriods(t, periods)),
                           PeriodGrouper(china_as_counterpart_type), FALSE),
                  periods)

(***************************************************************************)
(* reorder_countries                                                       *)
(***************************************************************************)
\* df["country"].map(GROUPS).fillna(99)
GroupOrder(country) ==
    LET order == ("Developing countries" :> 1) @@ ("Low income" :> 2)
                 @@ ("Lower middle income" :> 3) @@ ("Upper middle income" :> 4)
                 @@ ("Africa" :> 7) @@ ("Europe" :> 8) @@ ("Asia" :> 9)
                 @@ ("America" :> 10) @@ ("Oceania" :> 11)
    IN  IF country \in DOMAIN order THEN order[country] ELSE 99

\* df["counterpart_type"].map(counterpart_order).fillna(99)
CounterpartOrder(counterpart_type) ==
    LET order == ("Bilateral" :> 1) @@ ("Multilateral" :> 2) @@ ("Private" :> 3)
                 @@ ("China" :> 4)
    IN  IF counterpart_type \in DOMAIN order THEN order[counterpart_type] ELSE 99

\* The table with the helper columns the function sets on it.
WithOrder(t, counterpart_type) ==
    [j \in 1..Len(t) |->
        [f \in (DOMAIN t[j]) \cup {"order"}
                 \cup (IF counterpart_type THEN {"order_counterpart"} ELSE {}) |->
            IF f = "order" THEN GroupOrder(t[j].country)
            ELSE IF f = "order_counterpart"
                 THEN CounterpartOrder(t[j].counterpart_type)
                 ELSE t[j][f]]]

\* The country names of the model in the order of string comparison.
Collation == <<"Africa", "Developing countries", "Kenya", "Mali">>

\* The sort key of sort_values(["order", "country", "year", ...]).
SortKey(r) ==
    << r["order"], CHOOSE i \in 1..Len(Collation) : Collation[i] = r.country,
       r.year,
       IF "order_counterpart" \in DOMAIN r THEN r["order_counterpart"] ELSE 0 >>

RECURSIVE LexLess(_, _)
LexLess(a, b) ==
    /\ Len(a) > 0
    /\ \/ a[1] < b[1]
       \/ a[1] = b[1] /\ LexLess(Tail(a), Tail(b))

RECURSIVE SortValues(_)
\* A stable sort by the key: the head goes behind the rows of a smaller key.
SortValues(t) ==
    IF Len(t) = 0 THEN <<>>
    ELSE LET rest == SortValues(Tail(t))
             k == Cardinality({i \in 1..Len(rest) :
                                  LexLess(SortKey(rest[i]), SortKey(Head(t)))})
         IN  SubSeq(rest, 1, k) \o <<Head(t)>> \o SubSeq(rest, k + 1, Len(rest))

reorder_countries(t, counterpart_type) ==
    LET sorted == SortValues(WithOrder(t, counterpart_type))
    IN  [j \in 1..Len(sorted) |->
            [f \in (DOMAIN sorted[j]) \ {"order", "order_counterpart"} |->
                sorted[j][f]]]

(***************************************************************************)
(* The period averages as operations: SpecPeriod                           *)
(***************************************************************************)
\* Rows as get_debt_service and historical_inflows return them.
PeriodBaseRow ==
    [year |-> 2020, country |-> "Kenya", continent |-> "Africa",
     income_level |-> "Lower middle income", prices |-> "current",
     counterpart_type |-> "Bilateral", value |-> 100 * Den]

PeriodRowP ==
    << PeriodBaseRow,
       [PeriodBaseRow EXCEPT !.year = 2022, !.value = 50 * Den],
       [PeriodBaseRow EXCEPT !.year = 2022, !.counterpart_type = "Multilateral",
                             !.value = (7 * Den) \div 100],
       [PeriodBaseRow EXCEPT !.year = 2023, !.value = (5 * Den) \div 100],
       [PeriodBaseRow EXCEPT !.year = 2017, !.value = 50 * Den],
       [PeriodBaseRow EXCEPT !.year = 2024, !.country = "Mali",
                             !.income_level = NULL],
       [PeriodBaseRow EXCEPT !.year = 2021, !.value = 0 - 30 * Den],
       [PeriodBaseRow EXCEPT !.year = 2024, !.country = "Africa",
                             !.counterpart_type = NULL] >>

TablesPeriod ==
    UNION {{[j \in 1..n |-> PeriodRowP[q[j] + 1]] :
               q \in IndexSeqs(n, Len(PeriodRowP))} : n \in 1..MaxRows}

\* The caller's table is in `data`, AVERAGE_PERIODS in `mult`.
InitPeriod ==
    /\ data \in TablesPeriod
    /\ mult \in AveragePeriodChoices
    /\ call = NoCall
    /\ extended = <<>>
    /\ parts = NoParts
    /\ projected = <<>>
    /\ out = <<>>
    /\ status = "idle"

\* debt_service_by_period sets the period column on the table it was given;
\* the rows it groups are in `extended`, the sums in `projected`.
CallDebtServiceByPeriod ==
    /\ status = "idle"
    /\ call' = [NoCall EXCEPT !.op = "debt_service_by_period"]
    /\ data' = AssignPeriods(data, mult)
    /\ extended' = DropNaPeriod(AssignPeriods(data, mult))
    /\ projected' = GroupSum(DropNaPeriod(AssignPeriods(data, mult)),
                             PeriodGrouper(TRUE), FALSE)
    /\ out' = debt_service_by_period(data, mult)
    /\ status' = "ok"
    /\ UNCHANGED <<mult, parts>>

\* inflows_by_period works on a deep copy; china_as_counterpart_type is kept
\* in the scenario field of the call.
CallInflowsByPeriod ==
    /\ status = "idle"
    /\ \E china \in BOOLEAN :
        /\ call' = [NoCall EXCEPT !.op = "inflows_by_period", !.scenario = china]
        /\ extended' = DropNaPeriod(AssignPeriods(data, mult))
        /\ projected' = GroupSum(DropNaPeriod(AssignPeriods(data, mult)),
                                 PeriodGrouper(china), FALSE)
        /\ out' = inflows_by_period(data, mult, china)
    /\ status' = "ok"
    /\ UNCHANGED <<data, mult, parts>>

\* reorder_countries sets its helper columns on the table it was given and
\* returns a sorted copy without them.
CallReorderCountries ==
    /\ status = "idle"
    /\ \E counterpart_type \in BOOLEAN :
        /\ call' = [NoCall EXCEPT !.op = "reorder_countries",
                                  !.scenario = counterpart_type]
        /\ data' = WithOrder(data, counterpart_type)
        /\ out' = reorder_countries(data, counterpart_type)
    /\ status' = "ok"
    /\ UNCHANGED <<mult, extended, parts, projected>>

NextPeriod ==
    \/ CallDebtServiceByPeriod
    \/ CallInflowsByPeriod
    \/ CallReorderCountries

SpecPeriod == InitPeriod /\ [][NextPeriod]_vars

(***************************************************************************)
(* Properties of the period averages                                       *)
(***************************************************************************)
PeriodOps == {"debt_service_by_period", "inflows_by_period"}

\* The rows of `extended` that an output row stands for.
PeriodMembers(o) ==
    SelectSeq(extended, LAMBDA r : \A f \in (DOMAIN o) \ {"value"} : r[f] = o[f])

\* The declared length of a period in the dictionary of the call.
DeclaredLength(name) ==
    CHOOSE n \in 1..5 : \E i \in 1..Len(mult) :
        mult[i].period = name /\ mult[i].length = n

\* C21: a period average has one row per period and group key of the rows
\* assigned to a period; its value is the sum of the values of those rows
\* divided by the declared length of the period (not by the years of its
\* range), rounded to 2 decimal places: it is a whole number of hundredths
\* at most half a hundredth from the quotient.  Declared length 5 and summed
\* value 100 give 20.00.
C21_PeriodAverage ==
    (call.op \in PeriodOps /\ status = "ok") =>
        /\ \A j \in 1..Len(out) :
              LET total == Total(PeriodMembers(out[j]))
                  len == DeclaredLength(out[j]["period"])
                  diff == out[j].value * len - total
              IN  /\ Len(PeriodMembers(out[j])) > 0
                  /\ out[j].value % (Den \div 100) = 0
                  /\ 2 * diff <= (Den \div 100) * len
                  /\ 2 * diff >= 0 - (Den \div 100) * len
                  /\ (total = 100 * Den /\ len = 5) => out[j].value = 20 * Den
        /\ \A i, j \in 1..Len(out) :
              (\A f \in (DOMAIN out[i]) \ {"value"} : out[i][f] = out[j][f])
                  => i = j
        /\ \A q \in 1..Len(extended) :
              \E j \in 1..Len(out) :
                  \A f \in (DOMAIN out[j]) \ {"value"} : out[j][f] = extended[q][f]

\* The example (100 over a declared length of 5 is 20.00) next to a group of
\* two rows whose quotient, 50.05 / 2, is rounded to 25.02.
C21_Witness ==
    /\ call.op \in PeriodOps
    /\ status = "ok"
    /\ \E j \in 1..Len(out) :
          /\ out[j]["period"] = "2018-2022"
          /\ Total(PeriodMembers(out[j])) = 100 * Den
          /\ out[j].value = 20 * Den
    /\ \E j \in 1..Len(out) :
          /\ out[j]["period"] = "2022-2023"
          /\ Len(PeriodMembers(out[j])) = 2
          /\ Total(PeriodMembers(out[j])) = 50 * Den + (5 * Den) \div 100
          /\ out[j].value = 25 * Den + (2 * Den) \div 100

\* The positions of the period definitions whose range holds a year.
PeriodHits(year) ==
    {i \in 1..Len(mult) : mult[i].years[1] <= year /\ year <= mult[i].years[2]}

\* The rows of the caller's table whose year lies in some period range.
InSomePeriod == SelectSeq(data, LAMBDA r : PeriodHits(r.year) # {})

\* C30: every row is counted in at most one period: the rows that are summed
\* are the rows of the table whose year lies in some period range, each once,
\* with the last period in definition order whose range holds its year; a
\* row whose year lies in no range is dropped; the sums hold every counted
\* row once.
C30_PeriodAssignment ==
    (call.op \in PeriodOps /\ status = "ok") =>
        /\ Len(extended) = Len(InSomePeriod)
        /\ \A j \in 1..Len(extended) :
              /\ \A f \in (DOMAIN InSomePeriod[j]) \ {"period"} :
                    extended[j][f] = InSomePeriod[j][f]
              /\ \A i \in PeriodHits(extended[j].year) :
                    (\A k \in PeriodHits(extended[j].year) : k <= i)
                        => extended[j]["period"] = mult[i].period
        /\ Total(projected) = Total(extended)

\* A row of 2022, a year of two ranges, counted in the later definition,
\* "2018-2022", and not in "2022-2023"; a row of 2017 dropped.
C30_Witness ==
    /\ call.op \in PeriodOps
    /\ status = "ok"
    /\ Len(mult) >= 2
    /\ mult[1].period = "2022-2023"
    /\ mult[Len(mult)].period = "2018-2022"
    /\ \E j \in 1..Len(extended) :
          extended[j].year = 2022 /\ extended[j]["period"] = "2018-2022"
    /\ \E q \in 1..Len(data) : data[q].year = 2017
    /\ Len(extended) < Len(data)

\* C22: a transform leaves the table of its caller as it was: the same
\* columns and the same values after the call as before it.
C22_ArgumentUnchanged ==
    [][(status = "idle"
            /\ call'.op \in {"projected_scenarios",
                             "projected_scenarios_with_multiplier",
                             "apply_linear_reduction", "debt_service_by_period",
                             "inflows_by_period", "reorder_countries"})
          => (data' = data /\ mult' = mult)]_vars

(***************************************************************************)
(* All flows, net flows and countries without outflows                     *)
(***************************************************************************)
NotNegated(t) == t

\* .assign(value=lambda d: -d.value)
Negated(t) == [j \in 1..Len(t) |-> [t[j] EXCEPT !.value = 0 - t[j].value]]

\* get_all_flows: the prepared inflows and the prepared debt service, negated,
\* in one table without iso_code and without the rows of value 0.
get_all_flows(inflows, outflows) ==
    SelectSeq(PipelineRows(Concat(prep_flows(inflows), Negated(prep_flows(outflows)))),
              LAMBDA r : r.value # 0)

\* The (year, country) pairs of df_pivot whose outflow is not missing: those
\* with a current-price outflow row.
HasOutflow(t, country, year) ==
    \E j \in 1..Len(t) :
        /\ t[j].prices = "current"
        /\ t[j].indicator_type = "outflow"
        /\ t[j].country = country
        /\ t[j].year = year

RECURSIVE KeptByYear(_, _, _)
\* The loop over df_pivot["year"].unique(), from year y on: the rows of the
\* year whose country has an outflow in it, one frame per year with a
\* current-price row.
KeptByYear(t, y, last) ==
    IF y > last THEN <<>>
    ELSE SelectSeq(t, LAMBDA r : /\ r.year = y
                                 /\ \E j \in 1..Len(t) : /\ t[j].prices = "current"
                                                         /\ t[j].year = y
                                 /\ HasOutflow(t, r.country, y))
         \o KeptByYear(t, y + 1, last)

\* What exclude_countries_without_outflows raises: pd.concat of no frame when
\* no row is in current prices, and the pivot has no outflow column to read
\* when no current-price row is an outflow.
OutflowsRaise(t) ==
    IF \A j \in 1..Len(t) : t[j].prices # "current" THEN "ValueError"
    ELSE IF \A j \in 1..Len(t) :
                t[j].prices = "current" => t[j].indicator_type # "outflow"
         THEN "AttributeError"
         ELSE "ok"

\* exclude_countries_without_outflows of a table on which it does not raise;
\* the years of the rows of the model are LATEST_INFLOWS - 1 .. LATEST_INFLOWS + 1.
exclude_countries_without_outflows(t) ==
    KeptByYear(t, LATEST_INFLOWS - 1, LATEST_INFLOWS + 1)

(***************************************************************************)
(* The flows as operations: SpecFlows                                      *)
(***************************************************************************)
\* Largest number of rows of a debt service table.
MaxOutflowRows == 2

\* Inflows as get_total_inflows returns them, debt service as
\* get_debt_service_data does (positive values).
LoanRow == [BaseRow EXCEPT !.indicator = bilateral_concessional]

InflowRowP ==
    << LoanRow,
       [LoanRow EXCEPT !.indicator = grants_bilateral, !.value = 100 * Den],
       [LoanRow EXCEPT !.year = LATEST_INFLOWS - 1],
       [LoanRow EXCEPT !.country = "Mali", !.income_level = "Low income",
                       !.iso_code = "MLI"],
       [LoanRow EXCEPT !.counterpart_area = "World", !.value = 100 * Den],
       [LoanRow EXCEPT !.counterpart_type = NULL, !.counterpart_area = "Japan"] >>

OutflowRowP ==
    << [LoanRow EXCEPT !.indicator_type = "outflow", !.value = 30 * Den],
       [LoanRow EXCEPT !.indicator_type = "outflow"],
       [LoanRow EXCEPT !.indicator_type = "outflow", !.year = LATEST_INFLOWS + 1,
                       !.indicator = bilateral_non_concessional,
                       !.value = 30 * Den],
       [LoanRow EXCEPT !.indicator_type = "outflow", !.country = "Peru",
                       !.continent = "America",
                       !.income_level = "Upper middle income",
                       !.iso_code = "PER", !.value = 30 * Den] >>

\* to_constant_prices / assign(prices="current"): one price basis per table.
InPrices(t, constant) ==
    [j \in 1..Len(t) |->
        [t[j] EXCEPT !.prices = IF constant THEN "constant" ELSE "current"]]

InitFlows ==
    /\ data \in UNION {{[j \in 1..n |-> InflowRowP[q[j] + 1]] :
                          q \in IndexSeqs(n, Len(InflowRowP))} : n \in 0..MaxRows}
    /\ mult \in UNION {{[j \in 1..n |-> OutflowRowP[q[j] + 1]] :
                          q \in IndexSeqs(n, Len(OutflowRowP))} :
                             n \in 0..MaxOutflowRows}
    /\ call = NoCall
    /\ extended = <<>>
    /\ parts = NoParts
    /\ projected = <<>>
    /\ out = <<>>
    /\ status = "idle"

\* get_all_flows(constant): its result is in `extended`; `constant` is kept
\* in the scenario field of the call.
CallGetAllFlows ==
    /\ status = "idle"
    /\ \E constant \in BOOLEAN :
        /\ call' = [NoCall EXCEPT !.op = "get_all_flows", !.scenario = constant]
        /\ extended' = get_all_flows(InPrices(data, constant),
                                     InPrices(mult, constant))
    /\ status' = "flows"
    /\ UNCHANGED <<data, mult, parts, projected, out>>

\* convert_to_net_flows on all flows: the sums per key in `projected`.
CallConvertAllFlows ==
    /\ status = "flows"
    /\ call' = [call EXCEPT !.op = "convert_to_net_flows"]
    /\ projected' = GroupSum(extended, Columns(extended) \ {"value", "indicator_type"},
                             FALSE)
    /\ out' = convert_to_net_flows(extended)
    /\ status' = "ok"
    /\ UNCHANGED <<data, mult, extended, parts>>

CallExcludeCountriesWithoutOutflows ==
    /\ status = "flows"
    /\ call' = [call EXCEPT !.op = "exclude_countries_without_outflows"]
    /\ status' = OutflowsRaise(extended)
    /\ IF OutflowsRaise(extended) = "ok"
       THEN out' = exclude_countries_without_outflows(extended)
       ELSE UNCHANGED out
    /\ UNCHANGED <<data, mult, extended, parts, projected>>

NextFlows ==
    \/ CallGetAllFlows
    \/ CallConvertAllFlows
    \/ CallExcludeCountriesWithoutOutflows

SpecFlows == InitFlows /\ [][NextFlows]_vars

FlowOf(r) == [f \in (DOMAIN r) \ {"value", "indicator_type"} |-> r[f]]

\* The prepared rows of a source table that share the key of an output row.
FlowsOfKey(t, o) ==
    SelectSeq(PipelineRows(PrepFilter(t)),
              LAMBDA r : [FlowOf(r) EXCEPT !.prices = o.prices] = FlowOf(o))

\* C26: convert_to_net_flows has exactly one row for every combination of the
\* columns other than value and indicator_type; its value is the sum of the
\* inflow values plus the sum of the (negative) outflow values of the key, and
\* its indicator_type is 'net_flow'.  get_all_flows hands the outflows over
\* negated, so the net flow is the inflows less the debt service of the key.
C26_NetFlows ==
    (call.op = "convert_to_net_flows" /\ status = "ok") =>
        /\ \A j \in 1..Len(out) :
              /\ out[j].indicator_type = "net_flow"
              /\ out[j].value
                   = Total(SelectSeq(extended, LAMBDA r :
                         r.indicator_type = "inflow" /\ FlowOf(r) = FlowOf(out[j])))
                     + Total(SelectSeq(extended, LAMBDA r :
                         r.indicator_type = "outflow" /\ FlowOf(r) = FlowOf(out[j])))
              /\ out[j].value
                   = Total(FlowsOfKey(data, out[j])) - Total(FlowsOfKey(mult, out[j]))
              /\ \A i \in 1..Len(out) : FlowOf(out[i]) = FlowOf(out[j]) => i = j
        /\ \A q \in 1..Len(extended) :
              \E j \in 1..Len(out) : FlowOf(out[j]) = FlowOf(extended[q])
        /\ \A q \in 1..Len(extended) :
              extended[q].indicator_type = "outflow" => extended[q].value < 0

\* A loan inflow of 50 and a debt service of 30 on the same key give a net
\* flow of 20, next to a key with inflows only.
C26_Witness ==
    /\ call.op = "convert_to_net_flows"
    /\ status = "ok"
    /\ Len(out) = 2
    /\ \E j \in 1..Len(out) :
          /\ out[j].value = 20 * Den
          /\ Total(FlowsOfKey(data, out[j])) = 50 * Den
          /\ Total(FlowsOfKey(mult, out[j])) = 30 * Den
    /\ \E j \in 1..Len(out) :
          /\ out[j].value = 100 * Den
          /\ Len(FlowsOfKey(mult, out[j])) = 0

\* C28: exclude_countries_without_outflows returns, for every input table
\* (also one with no current-price rows, or with no outflow rows at all),
\* exactly the input rows (country c, year y) for which c has a current-price
\* outflow total in year y: a country without outflows in a year loses the
\* rows of that year only.
C28_RowsWithOutflows ==
    (call.op = "exclude_countries_without_outflows") =>
        /\ status = "ok"
        /\ SameRows(out, SelectSeq(extended, LAMBDA r :
                             \E j \in 1..Len(extended) :
                                 /\ extended[j].prices = "current"
                                 /\ extended[j].indicator_type = "outflow"
                                 /\ extended[j].country = r.country
                                 /\ extended[j].year = r.year))

(***************************************************************************)
(* update_key_number                                                       *)
(***************************************************************************)
\* A dictionary is the sequence of its <<key, value>> pairs in insertion
\* order, a JSON file [exists, pairs].
RECURSIVE DictSet(_, _, _)
\* data[k] = v: the value of an existing key is replaced where it stands, a
\* new key goes to the end.
DictSet(pairs, k, v) ==
    IF Len(pairs) = 0 THEN << <<k, v>> >>
    ELSE IF Head(pairs)[1] = k THEN << <<k, v>> >> \o Tail(pairs)
         ELSE << Head(pairs) >> \o DictSet(Tail(pairs), k, v)

RECURSIVE DictUpdate(_, _)
\* for k in new_dict.keys(): data[k] = new_dict[k]
DictUpdate(pairs, new_dict) ==
    IF Len(new_dict) = 0 THEN pairs
    ELSE DictUpdate(DictSet(pairs, Head(new_dict)[1], Head(new_dict)[2]),
                    Tail(new_dict))

overwrite_key_number(file, new_dict) == [exists |-> TRUE, pairs |-> new_dict]

\* The file after update_key_number(path, new_dict): an absent file is first
\* written as {}, then the object is loaded, updated and written back.
update_key_number(file, new_dict) ==
    [exists |-> TRUE,
     pairs |-> DictUpdate(IF file.exists THEN file.pairs ELSE <<>>, new_dict)]

\* Largest number of calls on the path.
MaxCalls == 2

KeyNames == {"inflows", "outflows"}
KeyValues == {1, 2}

\* The dictionaries over the keys and values of the model.
Dicts ==
    {<<>>} \cup {<< <<k, v>> >> : k \in KeyNames, v \in KeyValues}
        \cup {d \in {<< <<k1, v1>>, <<k2, v2>> >> :
                         k1 \in KeyNames, k2 \in KeyNames,
                         v1 \in KeyValues, v2 \in KeyValues} : d[1][1] # d[2][1]}

\* The file at the path is in `data`, the file as it was before the first
\* call in `mult`, and the dictionaries passed so far in `extended`.
InitKeys ==
    /\ data \in {[exists |-> FALSE, pairs |-> <<>>]}
                   \cup {[exists |-> TRUE, pairs |-> d] : d \in Dicts}
    /\ mult = data
    /\ call = NoCall
    /\ extended = <<>>
    /\ parts = NoParts
    /\ projected = <<>>
    /\ out = <<>>
    /\ status = "idle"

CallUpdateKeyNumber ==
    /\ Len(extended) < MaxCalls
    /\ \E new_dict \in Dicts :
        /\ data' = update_key_number(data, new_dict)
        /\ extended' = Append(extended, new_dict)
    /\ call' = [NoCall EXCEPT !.op = "update_key_number"]
    /\ status' = "ok"
    /\ UNCHANGED <<mult, parts, projected, out>>

SpecKeys == InitKeys /\ [][CallUpdateKeyNumber]_vars

\* The keys of a dictionary, and the positions of a key in it.
KeysOf(d) == {d[i][1] : i \in 1..Len(d)}
PositionsOf(d, k) == {i \in 1..Len(d) : d[i][1] = k}

\* The calls so far whose dictionary holds the key.
CallsWith(k) == {c \in 1..Len(extended) : k \in KeysOf(extended[c])}

\* C27: after any sequence of calls on a path whose file was absent or held a
\* JSON object, the file holds a JSON object (every key once) that maps every
\* key passed in a call to its value in the most recent call that held it; a
\* key no call mentioned has the value it had before, and no key is removed.
C27_KeyNumbers ==
    (Len(extended) > 0) =>
        /\ data.exists
        /\ \A k \in KeysOf(data.pairs) : Cardinality(PositionsOf(data.pairs, k)) = 1
        /\ \A k \in KeyNames :
              IF CallsWith(k) # {}
              THEN LET last == CHOOSE c \in CallsWith(k) :
                                   \A b \in CallsWith(k) : b <= c
                   IN  \E i \in PositionsOf(data.pairs, k) :
                       \E q \in PositionsOf(extended[last], k) :
                           data.pairs[i][2] = extended[last][q][2]
              ELSE IF k \in KeysOf(mult.pairs)
                   THEN \E i \in PositionsOf(data.pairs, k) :
                        \E q \in PositionsOf(mult.pairs, k) :
                            data.pairs[i][2] = mult.pairs[q][2]
                   ELSE k \notin KeysOf(data.pairs)

\* Two calls on a file that held both keys: the second call changes the key
\* the first one set, and the key no call mentioned keeps its value.
C27_Witness ==
    /\ Len(extended) = 2
    /\ mult.exists
    /\ KeysOf(mult.pairs) = KeyNames
    /\ KeysOf(extended[1]) = {"inflows"}
    /\ KeysOf(extended[2]) = {"inflows"}
    /\ extended[1][1][2] # extended[2][1][2]
    /\ \E i \in PositionsOf(data.pairs, "inflows") :
          data.pairs[i][2] = extended[2][1][2]
    /\ KeysOf(data.pairs) = KeyNames

=============================================================================
